---- MODULE Spec2Model ----
(***************************************************************************)
(* Model of the hammer-on-trendline scanner: pivot detection, pivot        *)
(* regression trendlines, envelope trendlines, candle classification and   *)
(* the signal composer.  Bar indices are 0-based as in the Python source;  *)
(* a series `d` is a TLA+ sequence, so bar i is d[i + 1].                  *)
(* Floating point values are modelled as exact fractions [n, d] extended   *)
(* with the IEEE values the numpy divisions can produce (d = 0: +inf, -inf *)
(* and nan).                                                               *)
(***************************************************************************)
EXTENDS Integers, Sequences, FiniteSets, TLC

VARIABLES df, TALIB_AVAILABLE, talib_out, call, result,
          user_settings, registered_users, ADMIN_CHAT_ID, sent

\* The module globals of telegram_bot.py and the messages the bot sent
\* during the latest handler.
bot == <<user_settings, registered_users, ADMIN_CHAT_ID, sent>>

vars == <<df, TALIB_AVAILABLE, talib_out, call, result, bot>>

(***************************************************************************)
(* Bounds of the model.                                                    *)
(***************************************************************************)
MaxLen == 4
MaxPivotLen == 6
MaxLookback == 2
MaxNumPivots == 3

(***************************************************************************)
(* Float arithmetic.                                                       *)
(***************************************************************************)
Sign(x) == IF x > 0 THEN 1 ELSE IF x < 0 THEN -1 ELSE 0

Abs(x) == IF x < 0 THEN -x ELSE x

RECURSIVE Gcd(_, _)
Gcd(a, b) == IF b = 0 THEN a ELSE Gcd(b, a % b)

\* The float n/d in lowest terms with d > 0; d = 0 gives +inf, -inf or nan.
Float(n, d) ==
  IF d = 0 THEN [n |-> Sign(n), d |-> 0]
  ELSE LET g == Gcd(Abs(n), Abs(d))
           s == Sign(d)
       IN [n |-> s * (n \div g), d |-> s * (d \div g)]

I(x) == [n |-> x, d |-> 1]

IsNaN(a) == a.d = 0 /\ a.n = 0

FNeg(a) == [n |-> -a.n, d |-> a.d]

FAbs(a) == [n |-> Abs(a.n), d |-> a.d]

FAdd(a, b) ==
  IF a.d = 0 /\ b.d = 0 THEN (IF a.n = b.n THEN a ELSE [n |-> 0, d |-> 0])
  ELSE IF a.d = 0 THEN a
  ELSE IF b.d = 0 THEN b
  ELSE LET g == Gcd(a.d, b.d)
       IN Float(a.n * (b.d \div g) + b.n * (a.d \div g), (a.d \div g) * b.d)

FSub(a, b) == FAdd(a, FNeg(b))

FMul(a, b) ==
  IF a.d = 0 \/ b.d = 0 THEN [n |-> Sign(a.n) * Sign(b.n), d |-> 0]
  ELSE LET g1 == Gcd(Abs(a.n), b.d)
           g2 == Gcd(Abs(b.n), a.d)
       IN Float((a.n \div g1) * (b.n \div g2), (a.d \div g2) * (b.d \div g1))

\* x / 0.0 is +inf or -inf, 0.0 / 0.0 is nan (numpy warns, it does not raise).
FDiv(a, b) == FMul(a, Float(b.d, b.n))

FLe(a, b) ==
  /\ ~IsNaN(a)
  /\ ~IsNaN(b)
  /\ IF a.d = 0 /\ b.d = 0 THEN a.n <= b.n ELSE a.n * b.d <= b.n * a.d

FLt(a, b) ==
  /\ ~IsNaN(a)
  /\ ~IsNaN(b)
  /\ IF a.d = 0 /\ b.d = 0 THEN a.n < b.n ELSE a.n * b.d < b.n * a.d

FGe(a, b) == FLe(b, a)

FGt(a, b) == FLt(b, a)

RECURSIVE FSum(_)
FSum(s) == IF s = <<>> THEN I(0) ELSE FAdd(s[1], FSum(Tail(s)))

(***************************************************************************)
(* Python values.                                                          *)
(***************************************************************************)
None == [kind |-> "None"]

Raise(exc) == [kind |-> "raise", exc |-> exc]

\* telegram_bot.py is not running: no settings, no registered user, no
\* admin chat and nothing sent.
BotNotStarted ==
  /\ user_settings = <<>>
  /\ registered_users = {}
  /\ ADMIN_CHAT_ID = None
  /\ sent = <<>>

\* A returned Python list.
List(items) == [kind |-> "list", items |-> items]

\* range(n) as the sequence <<0, ..., n-1>>
Range(n) == [k \in 1..n |-> k - 1]

\* df[column].values
Column(d, column) == [k \in 1..Len(d) |-> d[k][column]]

(***************************************************************************)
(* pivot_detector.py                                                       *)
(***************************************************************************)
Clip(i, n) == IF i < 0 THEN 0 ELSE IF i > n - 1 THEN n - 1 ELSE i

Compare_without_ties(comparator, a, b) ==
  IF comparator \in {"greater_equal", "greater"} THEN a > b ELSE a < b

Compare(comparator, a, b) ==
  IF comparator = "greater_equal" THEN a >= b
  ELSE IF comparator = "less_equal" THEN a <= b
  ELSE IF comparator = "greater" THEN a > b
  ELSE a < b

\* scipy.signal.argrelextrema(data, comparator, order=order, mode='clip')[0]:
\* the indices, ascending, whose value compares true against the value at
\* every shift 1..order on both sides, indices beyond an end clipped to it.
argrelextrema(data, comparator, order) ==
  LET n == Len(data)
      IsExtremum(i) ==
        \A shift \in 1..order :
          /\ Compare(comparator, data[i + 1], data[Clip(i + shift, n) + 1])
          /\ Compare(comparator, data[i + 1], data[Clip(i - shift, n) + 1])
  IN SelectSeq(Range(n), IsExtremum)

max_valid_index_off_by_one(n, lookback, exclude_recent) ==
  IF exclude_recent THEN n - lookback ELSE n - 1

max_valid_index(n, lookback, exclude_recent) ==
  IF exclude_recent THEN n - lookback - 1 ELSE n - 1

PivotPoint(index, price, is_high) ==
  [index |-> index, price |-> price, is_high |-> is_high]

detect_pivots(d, lookback, column, comparator, exclude_recent, is_high) ==
  LET Pivots(values, kept) ==
        [k \in 1..Len(kept) |-> PivotPoint(kept[k], values[kept[k] + 1], is_high)]
      Filter(values, pivot_indices, limit) ==
        LET Valid(idx) == idx <= limit
        IN Pivots(values, SelectSeq(pivot_indices, Valid))
      Detect(values) ==
        Filter(values, argrelextrema(values, comparator, lookback),
               max_valid_index(Len(d), lookback, exclude_recent))
  IN Detect(Column(d, column))

detect_pivot_highs_strict(d, lookback, exclude_recent) ==
  detect_pivots(d, lookback, "High", "greater", exclude_recent, TRUE)

detect_pivot_highs(d, lookback, exclude_recent) ==
  detect_pivots(d, lookback, "High", "greater_equal", exclude_recent, TRUE)

detect_pivot_lows(d, lookback, exclude_recent) ==
  detect_pivots(d, lookback, "Low", "less_equal", exclude_recent, FALSE)

\* pivots[-n:] when len(pivots) >= n, else all of them; then sorted by index.
\* The detectors return pivots in ascending index order, which the stable
\* sort keeps.
LastN(pivots, n) ==
  IF Len(pivots) >= n THEN SubSeq(pivots, Len(pivots) - n + 1, Len(pivots))
  ELSE pivots

get_last_n_pivots_first(pivots, n) ==
  IF Len(pivots) >= n THEN SubSeq(pivots, 1, n) ELSE pivots

get_last_n_pivots(pivots, n) == LastN(pivots, n)

(***************************************************************************)
(* trendline_calculator.py                                                 *)
(***************************************************************************)
DefaultExtendBars == 10

\* Trendline.get_price_at_index
get_price_at_index(line, index) == FAdd(FMul(line.slope, I(index)), line.intercept)

r_squared_of(ss_res, ss_tot) ==
  IF ss_tot = I(0) THEN I(1) ELSE FSub(I(1), FDiv(ss_res, ss_tot))

\* x: bar indices (integers), y: prices.  Returns the ValueError for fewer
\* than two points, else slope, intercept and r_squared.
\* Each statement of the function is a local operator of the values it reads,
\* applied in the order of the code.
calculate_linear_regression(x, y) ==
  LET n == Len(x)
      Sq(a) == FMul(a, a)
      Result(slope, intercept, ss_res, ss_tot) ==
        [kind |-> "ok", slope |-> slope, intercept |-> intercept,
         r_squared |-> r_squared_of(ss_res, ss_tot)]
      Residuals(slope, intercept, y_pred, mean_y) ==
        Result(slope, intercept,
               FSum([k \in 1..n |-> Sq(FSub(I(y[k]), y_pred[k]))]),
               FSum([k \in 1..n |-> Sq(FSub(I(y[k]), mean_y))]))
      Predict(sum_y, slope, intercept) ==
        Residuals(slope, intercept,
                  [k \in 1..n |-> FAdd(FMul(slope, I(x[k])), intercept)],
                  FDiv(sum_y, I(n)))
      Intercept(sum_x, sum_y, slope) ==
        Predict(sum_y, slope, FDiv(FSub(sum_y, FMul(slope, sum_x)), I(n)))
      Slope(sum_x, sum_y, sum_xy, denominator) ==
        Intercept(sum_x, sum_y,
                  IF denominator = I(0) THEN I(0)
                  ELSE FDiv(FSub(FMul(I(n), sum_xy), FMul(sum_x, sum_y)), denominator))
      Sums(sum_x, sum_y, sum_xy, sum_x_sq) ==
        Slope(sum_x, sum_y, sum_xy, FSub(FMul(I(n), sum_x_sq), FMul(sum_x, sum_x)))
  IN IF n < 2 THEN Raise("ValueError")
     ELSE Sums(FSum([k \in 1..n |-> I(x[k])]),
               FSum([k \in 1..n |-> I(y[k])]),
               FSum([k \in 1..n |-> I(x[k] * y[k])]),
               FSum([k \in 1..n |-> I(x[k] * x[k])]))

\* The body shared by calculate_resistance_trendline and
\* calculate_support_trendline after pivot detection.  angle_degrees is a
\* display value (arctan) that no decision reads; it is left out.
fit_last_pivots(d, detected, num_pivots, extend_bars, is_resistance) ==
  LET Line(pivots, reg, end_index) ==
        IF reg.kind = "raise" THEN reg
        ELSE [kind |-> "Trendline",
              slope |-> reg.slope,
              intercept |-> reg.intercept,
              start_index |-> pivots[1].index,
              end_index |-> end_index,
              start_price |-> pivots[1].price,
              end_price |-> FAdd(FMul(reg.slope, I(end_index)), reg.intercept),
              pivot_points |-> pivots,
              is_resistance |-> is_resistance,
              r_squared |-> reg.r_squared]
      Fit(pivots) ==
        Line(pivots,
             calculate_linear_regression([k \in 1..Len(pivots) |-> pivots[k].index],
                                         [k \in 1..Len(pivots) |-> pivots[k].price]),
             Len(d) - 1 + extend_bars)
  IN IF Len(detected) < num_pivots THEN None
     ELSE Fit(get_last_n_pivots(detected, num_pivots))

calculate_resistance_trendline(d, lookback, num_pivots, extend_bars) ==
  fit_last_pivots(d, detect_pivot_highs(d, lookback, TRUE), num_pivots, extend_bars, TRUE)

calculate_support_trendline(d, lookback, num_pivots, extend_bars) ==
  fit_last_pivots(d, detect_pivot_lows(d, lookback, TRUE), num_pivots, extend_bars, FALSE)

(***************************************************************************)
(* hammer_detector.py                                                      *)
(***************************************************************************)
HammerSignal(i, bar, pattern_type, is_bullish) ==
  [index |-> i,
   open_price |-> bar.Open,
   high_price |-> bar.High,
   low_price |-> bar.Low,
   close_price |-> bar.Close,
   pattern_type |-> pattern_type,
   is_bullish |-> is_bullish,
   body_size |-> Abs(bar.Close - bar.Open),
   lower_wick |-> (IF bar.Open < bar.Close THEN bar.Open ELSE bar.Close) - bar.Low,
   upper_wick |-> bar.High - (IF bar.Open > bar.Close THEN bar.Open ELSE bar.Close)]

is_bullish_or_flat(o, c) == c >= o

\* is_bullish = c > o
is_bullish_of(o, c) == c > o

\* One iteration of the loop of detect_hammer_manual: the signals bar i adds.
manual_bar_signals(d, i, lower_wick_min_pct, upper_wick_max_pct, body_max_pct, min_range_pct) ==
  LET bar == d[i + 1]
      o == bar.Open
      h == bar.High
      l == bar.Low
      c == bar.Close
      total_range == h - l
      body == Abs(c - o)
      lower_wick == (IF o < c THEN o ELSE c) - l
      upper_wick == h - (IF o > c THEN o ELSE c)
      body_pct == FDiv(I(body), I(total_range))
      lower_wick_pct == FDiv(I(lower_wick), I(total_range))
      upper_wick_pct == FDiv(I(upper_wick), I(total_range))
      range_pct == FMul(FDiv(I(total_range), I(c)), I(100))
      is_hammer == /\ FGe(lower_wick_pct, lower_wick_min_pct)
                   /\ FLe(upper_wick_pct, upper_wick_max_pct)
                   /\ FLe(body_pct, body_max_pct)
      is_inverted == /\ FGe(upper_wick_pct, lower_wick_min_pct)
                     /\ FLe(lower_wick_pct, upper_wick_max_pct)
                     /\ FLe(body_pct, body_max_pct)
  IN IF total_range = 0 THEN <<>>
     ELSE IF FLt(range_pct, min_range_pct) THEN <<>>
     ELSE IF is_hammer \/ is_inverted
          THEN <<HammerSignal(i, bar,
                              IF is_inverted THEN "inverted_hammer" ELSE "hammer",
                              is_bullish_of(o, c))>>
          ELSE <<>>

RECURSIVE manual_loop(_, _, _, _, _, _)
manual_loop(d, i, lower_wick_min_pct, upper_wick_max_pct, body_max_pct, min_range_pct) ==
  IF i >= Len(d) THEN <<>>
  ELSE manual_bar_signals(d, i, lower_wick_min_pct, upper_wick_max_pct, body_max_pct,
                          min_range_pct)
       \o manual_loop(d, i + 1, lower_wick_min_pct, upper_wick_max_pct, body_max_pct,
                      min_range_pct)

detect_hammer_manual(d, lower_wick_min_pct, upper_wick_max_pct, body_max_pct, min_range_pct) ==
  manual_loop(d, 0, lower_wick_min_pct, upper_wick_max_pct, body_max_pct, min_range_pct)

detect_hammer_manual_half_wick(d) ==
  detect_hammer_manual(d, Float(50, 100), Float(25, 100), Float(45, 100), I(1))

\* The defaults of detect_hammer_manual: 0.55, 0.25, 0.45 and 1.0.
detect_hammer_manual_default(d) ==
  detect_hammer_manual(d, Float(55, 100), Float(25, 100), Float(45, 100), I(1))

Division(by, value) == [by |-> by, value |-> value]

manual_bar_divisions_unguarded(d, i) ==
  <<Division("total_range", d[i + 1].High - d[i + 1].Low),
    Division("total_range", d[i + 1].High - d[i + 1].Low),
    Division("total_range", d[i + 1].High - d[i + 1].Low),
    Division("c", d[i + 1].Close)>>

\* The divisions one iteration of the loop of detect_hammer_manual executes,
\* each with its divisor: none after the `continue` of a zero range, else
\* the three ratios to total_range and the ratio of total_range to c.
manual_bar_divisions(d, i) ==
  IF d[i + 1].High - d[i + 1].Low = 0 THEN <<>>
  ELSE <<Division("total_range", d[i + 1].High - d[i + 1].Low),
         Division("total_range", d[i + 1].High - d[i + 1].Low),
         Division("total_range", d[i + 1].High - d[i + 1].Low),
         Division("c", d[i + 1].Close)>>

RECURSIVE manual_divisions(_, _)
\* The divisions of the whole loop, from bar i on.
manual_divisions(d, i) ==
  IF i >= Len(d) THEN <<>>
  ELSE manual_bar_divisions(d, i) \o manual_divisions(d, i + 1)

talib_bar_signals_inverted_first(d, out, i) ==
  LET Signal(pattern_type) ==
        IF pattern_type = "none" THEN <<>>
        ELSE <<HammerSignal(i, d[i + 1], pattern_type,
                            pattern_type \in {"hammer", "inverted_hammer"})>>
      Pick(row) ==
        Signal(IF row.CDLINVERTEDHAMMER # 0 THEN "inverted_hammer"
               ELSE IF row.CDLHAMMER # 0 THEN "hammer"
               ELSE IF row.CDLHANGINGMAN # 0 THEN "hanging_man"
               ELSE IF row.CDLSHOOTINGSTAR # 0 THEN "shooting_star"
               ELSE "none")
  IN Pick(out[i + 1])

\* One iteration of the loop of detect_hammer_talib; `out` holds the four
\* vendor arrays, one record per bar.
talib_bar_signals(d, out, i) ==
  LET row == out[i + 1]
      pattern_type ==
        IF row.CDLHAMMER # 0 THEN "hammer"
        ELSE IF row.CDLINVERTEDHAMMER # 0 THEN "inverted_hammer"
        ELSE IF row.CDLHANGINGMAN # 0 THEN "hanging_man"
        ELSE IF row.CDLSHOOTINGSTAR # 0 THEN "shooting_star"
        ELSE "none"
      is_bullish == pattern_type \in {"hammer", "inverted_hammer"}
  IN IF pattern_type = "none" THEN <<>>
     ELSE <<HammerSignal(i, d[i + 1], pattern_type, is_bullish)>>

RECURSIVE talib_loop(_, _, _)
talib_loop(d, out, i) ==
  IF i >= Len(d) THEN <<>>
  ELSE talib_bar_signals(d, out, i) \o talib_loop(d, out, i + 1)

detect_hammer_talib(d) ==
  IF ~TALIB_AVAILABLE THEN detect_hammer_manual_default(d)
  ELSE talib_loop(d, talib_out, 0)

detect_hammers(d) ==
  IF TALIB_AVAILABLE THEN detect_hammer_talib(d) ELSE detect_hammer_manual_default(d)

(***************************************************************************)
(* signal_generator.py                                                     *)
(***************************************************************************)
\* touch_tolerance = 0.005
touch_tolerance == Float(5, 1000)

calculate_hammer_trendline_distance(hammer, trendline) ==
  LET Measure(trendline_price, diff) ==
        [distance_pct |-> FAbs(FMul(FDiv(diff, trendline_price), I(100))),
         is_touch |-> FLe(FDiv(FAbs(diff), trendline_price), touch_tolerance)]
      Diff(trendline_price, price_to_check) ==
        Measure(trendline_price,
                IF trendline.is_resistance THEN FSub(trendline_price, price_to_check)
                ELSE FSub(price_to_check, trendline_price))
  IN Diff(get_price_at_index(trendline, hammer.index),
          IF trendline.is_resistance THEN I(hammer.high_price) ELSE I(hammer.low_price))

distance_score_inclusive(distance_pct, is_touch) ==
  IF is_touch \/ FLe(distance_pct, Float(1, 2)) THEN 3
  ELSE IF FLe(distance_pct, I(1)) THEN 2
  ELSE IF FLe(distance_pct, I(2)) THEN 1
  ELSE 0

distance_score(distance_pct, is_touch) ==
  IF is_touch \/ FLt(distance_pct, Float(1, 2)) THEN 3
  ELSE IF FLt(distance_pct, I(1)) THEN 2
  ELSE IF FLt(distance_pct, I(2)) THEN 1
  ELSE 0

evaluate_signal_strength_six(distance_pct, is_touch, hammer, trendline) ==
  LET Grade(score) == IF score >= 6 THEN "STRONG"
                      ELSE IF score >= 3 THEN "MODERATE"
                      ELSE "WEAK"
      Quality(wick_ratio) == IF FGt(wick_ratio, I(3)) THEN 1 ELSE 0
  IN Grade(distance_score(distance_pct, is_touch)
           + (IF FGt(trendline.r_squared, Float(95, 100)) THEN 2
              ELSE IF FGt(trendline.r_squared, Float(80, 100)) THEN 1
              ELSE 0)
           + Quality(FDiv(I(hammer.lower_wick), FAdd(I(hammer.body_size), Float(1, 1000)))))

evaluate_signal_strength(distance_pct, is_touch, hammer, trendline) ==
  LET reliability == IF FGt(trendline.r_squared, Float(95, 100)) THEN 2
                     ELSE IF FGt(trendline.r_squared, Float(80, 100)) THEN 1
                     ELSE 0
      wick_ratio == FDiv(I(hammer.lower_wick), FAdd(I(hammer.body_size), Float(1, 1000)))
      quality == IF FGt(wick_ratio, I(3)) THEN 1 ELSE 0
      score == distance_score(distance_pct, is_touch) + reliability + quality
  IN IF score >= 5 THEN "STRONG"
     ELSE IF score >= 3 THEN "MODERATE"
     ELSE "WEAK"

get_action_recommendation_ignoring_strength(trendline, hammer, strength) ==
  IF trendline.is_resistance
  THEN (IF hammer.is_bullish THEN "WATCH FOR BREAKOUT" ELSE "POTENTIAL REVERSAL DOWN")
  ELSE (IF hammer.is_bullish THEN "BUY SIGNAL" ELSE "WATCH FOR BOUNCE")

\* The returned text up to its " - " explanation.
get_action_recommendation(trendline, hammer, strength) ==
  IF trendline.is_resistance
  THEN (IF hammer.is_bullish /\ strength = "STRONG" THEN "WATCH FOR BREAKOUT"
        ELSE "POTENTIAL REVERSAL DOWN")
  ELSE (IF hammer.is_bullish THEN "BUY SIGNAL" ELSE "WATCH FOR BOUNCE")

is_near_strict(distance_pct, is_touch, tolerance_pct) ==
  FLt(distance_pct, tolerance_pct) \/ is_touch

\* The test `distance_pct <= tolerance_pct or is_touch`.
is_near(distance_pct, is_touch, tolerance_pct) ==
  FLe(distance_pct, tolerance_pct) \/ is_touch

\* One iteration of the loop over the hammers in find_hammer_on_resistance
\* and find_hammer_on_support: the signals this hammer adds.
hammer_signals(hammer, line, tolerance_pct) ==
  LET Signal(m, strength) ==
        [signal_type |-> IF line.is_resistance THEN "RESISTANCE_HAMMER"
                         ELSE "SUPPORT_HAMMER",
         trendline_type |-> IF line.is_resistance THEN "resistance" ELSE "support",
         hammer |-> hammer,
         trendline |-> line,
         distance_pct |-> m.distance_pct,
         is_touch |-> m.is_touch,
         strength |-> strength,
         action |-> get_action_recommendation(line, hammer, strength)]
      Check(m) ==
        IF is_near(m.distance_pct, m.is_touch, tolerance_pct)
        THEN <<Signal(m, evaluate_signal_strength(m.distance_pct, m.is_touch,
                                                  hammer, line))>>
        ELSE <<>>
  IN IF hammer.index < line.start_index THEN <<>>
     ELSE Check(calculate_hammer_trendline_distance(hammer, line))

RECURSIVE signal_loop(_, _, _)
signal_loop(hammers, line, tolerance_pct) ==
  IF hammers = <<>> THEN <<>>
  ELSE hammer_signals(Head(hammers), line, tolerance_pct)
       \o signal_loop(Tail(hammers), line, tolerance_pct)

find_hammer_on_resistance(d, lookback, tolerance_pct) ==
  LET Scan(resistance) ==
        IF resistance = None THEN <<>>
        ELSE signal_loop(detect_hammers(d), resistance, tolerance_pct)
  IN Scan(calculate_resistance_trendline(d, lookback, 2, DefaultExtendBars))

find_hammer_on_support(d, lookback, tolerance_pct) ==
  LET Scan(support) ==
        IF support = None THEN <<>>
        ELSE signal_loop(detect_hammers(d), support, tolerance_pct)
  IN Scan(calculate_support_trendline(d, lookback, 2, DefaultExtendBars))

find_all_support_first(d, lookback, tolerance_pct) ==
  find_hammer_on_support(d, lookback, tolerance_pct)
    \o find_hammer_on_resistance(d, lookback, tolerance_pct)

find_all_requiring_resistance(d, lookback, tolerance_pct) ==
  IF calculate_resistance_trendline(d, lookback, 2, DefaultExtendBars) = None THEN <<>>
  ELSE find_hammer_on_resistance(d, lookback, tolerance_pct)
         \o find_hammer_on_support(d, lookback, tolerance_pct)

find_all_trendline_hammer_signals(d, lookback, tolerance_pct) ==
  find_hammer_on_resistance(d, lookback, tolerance_pct)
    \o find_hammer_on_support(d, lookback, tolerance_pct)

(***************************************************************************)
(* Input series.                                                           *)
(***************************************************************************)
Bar(o, h, l, c) == [Open |-> o, High |-> h, Low |-> l, Close |-> c]

SeriesUpTo(bars, n) == UNION {[1..k -> bars] : k \in 0..n}

PivotBars == {Bar(100, 100, 100, 100), Bar(98, 105, 98, 105), Bar(95, 110, 95, 110)}

Idle == [fn |-> "idle"]

InitPivots ==
  /\ df \in SeriesUpTo(PivotBars, MaxPivotLen)
  /\ TALIB_AVAILABLE = FALSE
  /\ talib_out = <<>>
  /\ call = Idle
  /\ result = None
  /\ BotNotStarted

DetectPivotHighs ==
  /\ call = Idle
  /\ \E lookback \in 1..MaxLookback, exclude_recent \in BOOLEAN :
       /\ call' = [fn |-> "detect_pivot_highs", lookback |-> lookback,
                   exclude_recent |-> exclude_recent]
       /\ result' = List(detect_pivot_highs(df, lookback, exclude_recent))
  /\ UNCHANGED <<df, TALIB_AVAILABLE, talib_out, bot>>

DetectPivotLows ==
  /\ call = Idle
  /\ \E lookback \in 1..MaxLookback, exclude_recent \in BOOLEAN :
       /\ call' = [fn |-> "detect_pivot_lows", lookback |-> lookback,
                   exclude_recent |-> exclude_recent]
       /\ result' = List(detect_pivot_lows(df, lookback, exclude_recent))
  /\ UNCHANGED <<df, TALIB_AVAILABLE, talib_out, bot>>

CalculateResistanceTrendline ==
  /\ call = Idle
  /\ \E lookback \in 1..MaxLookback, num_pivots \in 1..MaxNumPivots :
       /\ call' = [fn |-> "calculate_resistance_trendline", lookback |-> lookback,
                   num_pivots |-> num_pivots]
       /\ result' = calculate_resistance_trendline(df, lookback, num_pivots,
                                                   DefaultExtendBars)
  /\ UNCHANGED <<df, TALIB_AVAILABLE, talib_out, bot>>

CalculateSupportTrendline ==
  /\ call = Idle
  /\ \E lookback \in 1..MaxLookback, num_pivots \in 1..MaxNumPivots :
       /\ call' = [fn |-> "calculate_support_trendline", lookback |-> lookback,
                   num_pivots |-> num_pivots]
       /\ result' = calculate_support_trendline(df, lookback, num_pivots,
                                                DefaultExtendBars)
  /\ UNCHANGED <<df, TALIB_AVAILABLE, talib_out, bot>>

NextPivots ==
  \/ DetectPivotHighs
  \/ DetectPivotLows
  \/ CalculateResistanceTrendline
  \/ CalculateSupportTrendline

SpecPivots == InitPivots /\ [][NextPivots]_vars

(***************************************************************************)
(* The scan of one series: Spec.                                           *)
(***************************************************************************)
\* A full-body bar topping at 100, three hammers with highs 100, 101 and
\* 102, and two low-priced bars that make steep lines.
SignalBars ==
  {Bar(99, 100, 99, 100), Bar(99, 100, 97, 100), Bar(101, 101, 99, 101),
   Bar(102, 102, 99, 101), Bar(6, 6, 5, 6), Bar(2, 2, 1, 2)}

Row(hammer, inverted, hanging, shooting) ==
  [CDLHAMMER |-> hammer, CDLINVERTEDHAMMER |-> inverted,
   CDLHANGINGMAN |-> hanging, CDLSHOOTINGSTAR |-> shooting]

\* Outputs of the vendor pattern library for a series of n bars.
VendorOutputs(n) ==
  {[k \in 1..n |-> IF k % 3 = 1 THEN Row(100, 0, -100, 0)
                   ELSE IF k % 3 = 2 THEN Row(0, 0, 0, 0)
                   ELSE Row(0, 0, 0, -100)]}

TolerancePcts == {I(1), I(2)}

Init ==
  /\ df \in SeriesUpTo(SignalBars, MaxLen)
  /\ TALIB_AVAILABLE \in BOOLEAN
  /\ talib_out \in (IF TALIB_AVAILABLE THEN VendorOutputs(Len(df)) ELSE {<<>>})
  /\ call = Idle
  /\ result = None
  /\ BotNotStarted

FindHammerOnResistance ==
  /\ call = Idle
  /\ \E lookback \in 1..MaxLookback, tolerance_pct \in TolerancePcts :
       /\ call' = [fn |-> "find_hammer_on_resistance", lookback |-> lookback,
                   tolerance_pct |-> tolerance_pct]
       /\ result' = List(find_hammer_on_resistance(df, lookback, tolerance_pct))
  /\ UNCHANGED <<df, TALIB_AVAILABLE, talib_out, bot>>

FindHammerOnSupport ==
  /\ call = Idle
  /\ \E lookback \in 1..MaxLookback, tolerance_pct \in TolerancePcts :
       /\ call' = [fn |-> "find_hammer_on_support", lookback |-> lookback,
                   tolerance_pct |-> tolerance_pct]
       /\ result' = List(find_hammer_on_support(df, lookback, tolerance_pct))
  /\ UNCHANGED <<df, TALIB_AVAILABLE, talib_out, bot>>

FindAllTrendlineHammerSignals ==
  /\ call = Idle
  /\ \E lookback \in 1..MaxLookback, tolerance_pct \in TolerancePcts :
       /\ call' = [fn |-> "find_all_trendline_hammer_signals", lookback |-> lookback,
                   tolerance_pct |-> tolerance_pct]
       /\ result' = List(find_all_trendline_hammer_signals(df, lookback, tolerance_pct))
  /\ UNCHANGED <<df, TALIB_AVAILABLE, talib_out, bot>>

Next ==
  \/ FindHammerOnResistance
  \/ FindHammerOnSupport
  \/ FindAllTrendlineHammerSignals

Spec == Init /\ [][Next]_vars

(***************************************************************************)
(* Scoring one candle against one line: SpecStrength.                      *)
(***************************************************************************)
\* Candles with lower wick / body of 2/0, 2/1, 3/1 and 4/1.
StrengthHammers ==
  {HammerSignal(3, Bar(101, 101, 99, 101), "hammer", FALSE),
   HammerSignal(3, Bar(99, 100, 97, 100), "hammer", TRUE),
   HammerSignal(3, Bar(100, 101, 97, 101), "hammer", TRUE),
   HammerSignal(3, Bar(100, 101, 96, 101), "hammer", TRUE)}

RSquareds == {Float(1, 2), Float(80, 100), Float(81, 100), Float(95, 100),
              Float(96, 100), I(1)}

DistancePcts == {I(0), Float(49, 100), Float(1, 2), Float(99, 100), I(1),
                 Float(199, 100), I(2), I(3), Float(1, 0)}

\* Flat lines as the fit returns them, with every fit quality.
StrengthLines ==
  {[kind |-> "Trendline", slope |-> I(0), intercept |-> b, start_index |-> s,
    end_index |-> 3 + DefaultExtendBars, start_price |-> 100, end_price |-> b,
    pivot_points |-> <<>>, is_resistance |-> r, r_squared |-> q] :
     b \in {I(100), Float(201, 2), Float(203, 2), I(99), I(0)},
     s \in {0, 4}, r \in BOOLEAN, q \in RSquareds}

InitStrength ==
  /\ df = <<>>
  /\ TALIB_AVAILABLE = FALSE
  /\ talib_out = <<>>
  /\ call = Idle
  /\ result = None
  /\ BotNotStarted

EvaluateSignalStrength ==
  /\ call = Idle
  /\ \E distance_pct \in DistancePcts, is_touch \in BOOLEAN,
        hammer \in StrengthHammers, line \in StrengthLines :
       /\ call' = [fn |-> "evaluate_signal_strength", distance_pct |-> distance_pct,
                   is_touch |-> is_touch, hammer |-> hammer, trendline |-> line]
       /\ result' = [kind |-> "str",
                     value |-> evaluate_signal_strength(distance_pct, is_touch,
                                                        hammer, line)]
  /\ UNCHANGED <<df, TALIB_AVAILABLE, talib_out, bot>>

\* One pass of the loop body of find_hammer_on_resistance / _on_support.
ComposeSignal ==
  /\ call = Idle
  /\ \E hammer \in StrengthHammers, line \in StrengthLines,
        tolerance_pct \in TolerancePcts :
       /\ call' = [fn |-> "hammer_signals", hammer |-> hammer, trendline |-> line,
                   tolerance_pct |-> tolerance_pct]
       /\ result' = List(hammer_signals(hammer, line, tolerance_pct))
  /\ UNCHANGED <<df, TALIB_AVAILABLE, talib_out, bot>>

NextStrength == EvaluateSignalStrength \/ ComposeSignal

SpecStrength == InitStrength /\ [][NextStrength]_vars

(***************************************************************************)
(* Claims about the signal composer, checked under Spec.                   *)
(***************************************************************************)
IsFindOnLineCall ==
  call.fn \in {"find_hammer_on_resistance", "find_hammer_on_support"}

\* The line the call fits: the default two-pivot line of its kind.
LineOfCall ==
  IF call.fn = "find_hammer_on_resistance"
  THEN calculate_resistance_trendline(df, call.lookback, 2, DefaultExtendBars)
  ELSE calculate_support_trendline(df, call.lookback, 2, DefaultExtendBars)

\* The emission test of C1 for candle h, in integers: the line price at
\* h.index is the fraction n/d with d > 0, so |line - ref|/line is
\* |n - ref*d| / n.  A negative line price makes that quotient <= 0, a zero
\* line price makes it inf or nan, which no comparison accepts.
EmitsPerClaim(line, h, tolerance_pct) ==
  LET price == get_price_at_index(line, h.index)
      ref == IF line.is_resistance THEN h.high_price ELSE h.low_price
      gap == Abs(price.n - ref * price.d)
      is_touch == IF price.n > 0 THEN 1000 * gap <= 5 * price.n ELSE price.n < 0
      within == /\ price.n # 0
                /\ 100 * gap * tolerance_pct.d <= tolerance_pct.n * Abs(price.n)
  IN h.index >= line.start_index /\ (is_touch \/ within)

C1_WitnessBeforeStart ==
  /\ IsFindOnLineCall
  /\ result.items # <<>>
  /\ LET line == LineOfCall
         hammers == detect_hammers(df)
     IN \E j \in 1..Len(hammers) :
          /\ hammers[j].index < line.start_index
          /\ get_price_at_index(line, hammers[j].index) = I(hammers[j].high_price)

\* C3: in the list of find_all_trendline_hammer_signals every resistance
\* signal precedes every support signal, and within each group the candle
\* bar index is strictly increasing.
C3_ResistanceFirstThenChronological ==
  call.fn = "find_all_trendline_hammer_signals" =>
    \A a, b \in 1..Len(result.items) :
      a < b =>
        /\ ~(/\ result.items[a].trendline_type = "support"
             /\ result.items[b].trendline_type = "resistance")
        /\ (result.items[a].trendline_type = result.items[b].trendline_type
              => result.items[a].hammer.index < result.items[b].hammer.index)

\* A list holding at least two signals of each kind.
C3_Witness ==
  /\ call.fn = "find_all_trendline_hammer_signals"
  /\ Cardinality({k \in 1..Len(result.items) :
                    result.items[k].trendline_type = "resistance"}) >= 2
  /\ Cardinality({k \in 1..Len(result.items) :
                    result.items[k].trendline_type = "support"}) >= 2

(***************************************************************************)
(* Claims about the pivot detector and the pivot regression fit,           *)
(* checked under SpecPivots.                                               *)
(***************************************************************************)
IsPivotCall == call.fn \in {"detect_pivot_highs", "detect_pivot_lows"}

IsTrendlineCall ==
  call.fn \in {"calculate_resistance_trendline", "calculate_support_trendline"}

Indices(pivots) == {pivots[k].index : k \in 1..Len(pivots)}

\* C4: every pivot returned with exclude_recent = True has at least
\* `lookback` bars after it: len(series) - 1 - pivot.index >= lookback.
C4_ConfirmedPivotHasLookbackBarsAfter ==
  (IsPivotCall /\ call.exclude_recent) =>
    \A k \in 1..Len(result.items) : Len(df) - 1 - result.items[k].index >= call.lookback

\* A confirmed pivot with exactly `lookback` bars after it, returned while a
\* later extremum of the same series was withheld as unconfirmed.
C4_Witness ==
  /\ IsPivotCall
  /\ call.exclude_recent
  /\ \E k \in 1..Len(result.items) : Len(df) - 1 - result.items[k].index = call.lookback
  /\ \E i \in 0..(Len(df) - 1) :
       /\ i > Len(df) - 1 - call.lookback
       /\ \A j \in 0..(Len(df) - 1) :
            Abs(i - j) <= call.lookback =>
              IF call.fn = "detect_pivot_highs" THEN df[i + 1].High >= df[j + 1].High
              ELSE df[i + 1].Low <= df[j + 1].Low

C6_NoPivotNearEitherEnd ==
  (IsPivotCall /\ call.exclude_recent) =>
    /\ \A k \in 1..Len(result.items) :
         /\ result.items[k].index >= call.lookback
         /\ result.items[k].index <= Len(df) - 1 - call.lookback
    /\ (Len(df) < 2 * call.lookback + 1 => result.items = <<>>)

\* C7: the trendline functions never raise; they return None exactly when
\* fewer than num_pivots confirmed pivots are detected, a Trendline otherwise.
C7_TrendlineNeverRaises ==
  IsTrendlineCall =>
    LET detected == IF call.fn = "calculate_resistance_trendline"
                    THEN detect_pivot_highs(df, call.lookback, TRUE)
                    ELSE detect_pivot_lows(df, call.lookback, TRUE)
    IN /\ result.kind # "raise"
       /\ (result = None) <=> (Len(detected) < call.num_pivots)
       /\ (result # None) => result.kind = "Trendline"

\* C8: with num_pivots = 2 and at least two confirmed pivots the line is
\* built from the two confirmed pivots of largest index, oldest first,
\* passes exactly through both and has r_squared = 1.
C8_TwoPivotLineIsExact ==
  LET detected == IF call.fn = "calculate_resistance_trendline"
                  THEN detect_pivot_highs(df, call.lookback, TRUE)
                  ELSE detect_pivot_lows(df, call.lookback, TRUE)
  IN (IsTrendlineCall /\ call.num_pivots = 2 /\ Len(detected) >= 2) =>
       LET newest == CHOOSE p \in {detected[k] : k \in 1..Len(detected)} :
                       \A q \in {detected[k] : k \in 1..Len(detected)} : q.index <= p.index
           older == CHOOSE p \in {detected[k] : k \in 1..Len(detected)} \ {newest} :
                      \A q \in {detected[k] : k \in 1..Len(detected)} \ {newest} :
                        q.index <= p.index
       IN /\ result.kind = "Trendline"
          /\ result.pivot_points = <<older, newest>>
          /\ result.start_index = older.index
          /\ older.index < newest.index
          /\ get_price_at_index(result, older.index) = I(older.price)
          /\ get_price_at_index(result, newest.index) = I(newest.price)
          /\ result.r_squared = I(1)

\* A sloped two-pivot line fitted while an older confirmed pivot exists.
C8_Witness ==
  /\ IsTrendlineCall
  /\ call.num_pivots = 2
  /\ result.kind = "Trendline"
  /\ result.slope # I(0)
  /\ Len(IF call.fn = "calculate_resistance_trendline"
         THEN detect_pivot_highs(df, call.lookback, TRUE)
         ELSE detect_pivot_lows(df, call.lookback, TRUE)) >= 3

(***************************************************************************)
(* Claim about the strength score, checked under SpecStrength.             *)
(***************************************************************************)
\* The score of C2 in integers, from the fractions n/d of its inputs.
ScorePerClaim(distance_pct, is_touch, hammer, r_squared) ==
  LET finite == distance_pct.d > 0
      below(num, den) == finite /\ distance_pct.n * den < num * distance_pct.d
      distance_part == IF is_touch \/ below(1, 2) THEN 3
                       ELSE IF below(1, 1) THEN 2
                       ELSE IF below(2, 1) THEN 1
                       ELSE 0
      fit_part == IF 100 * r_squared.n > 95 * r_squared.d THEN 2
                  ELSE IF 100 * r_squared.n > 80 * r_squared.d THEN 1
                  ELSE 0
      wick_part == IF 1000 * hammer.lower_wick > 3 * (1000 * hammer.body_size + 1)
                   THEN 1 ELSE 0
  IN distance_part + fit_part + wick_part

StrengthPerClaim(score) ==
  IF score >= 5 THEN "STRONG" ELSE IF score >= 3 THEN "MODERATE" ELSE "WEAK"

\* The scenario of C2: candle high 101 against a resistance line at 100,
\* tolerance 2%, the candle not before the line's start.
IsBoundaryScenario ==
  /\ call.fn = "hammer_signals"
  /\ call.trendline.is_resistance
  /\ call.hammer.high_price = 101
  /\ get_price_at_index(call.trendline, call.hammer.index) = I(100)
  /\ call.tolerance_pct = I(2)
  /\ call.hammer.index >= call.trendline.start_index

\* C2: the score is the distance part (3 if touch or < 0.5, else 2 if < 1.0,
\* else 1 if < 2.0, else 0) plus the fit part (2 if r_squared > 0.95, else 1
\* if > 0.80) plus 1 if lower_wick/(body_size + 0.001) > 3.0; STRONG iff
\* score >= 5, MODERATE iff 3 <= score < 5, WEAK otherwise.  The buckets are
\* strict: a non-touch distance of exactly 1.0% is emitted at tolerance 2%
\* with is_touch false and scores 1 for distance (the score at distance 3 has
\* a distance part of 0, so 1 plus it is the score with a distance part of 1).
C2_StrengthScoreStrictBuckets ==
  /\ call.fn = "evaluate_signal_strength" =>
       result.value = StrengthPerClaim(ScorePerClaim(call.distance_pct, call.is_touch,
                                                     call.hammer,
                                                     call.trendline.r_squared))
  /\ call.fn = "hammer_signals" =>
       \A k \in 1..Len(result.items) :
         result.items[k].strength
           = StrengthPerClaim(ScorePerClaim(result.items[k].distance_pct,
                                            result.items[k].is_touch, call.hammer,
                                            call.trendline.r_squared))
  /\ IsBoundaryScenario =>
       /\ Len(result.items) = 1
       /\ ~result.items[1].is_touch
       /\ result.items[1].distance_pct = I(1)
       /\ result.items[1].strength
            = StrengthPerClaim(1 + ScorePerClaim(I(3), FALSE, call.hammer,
                                                 call.trendline.r_squared))

\* The boundary scenario on a perfect line with a long-wick candle: 1 + 2 + 1.
C2_Witness ==
  /\ IsBoundaryScenario
  /\ call.trendline.r_squared = I(1)
  /\ call.hammer.body_size = 0
  /\ result.items # <<>>
  /\ result.items[1].strength = "MODERATE"

(***************************************************************************)
(* The 30-bar series with two spikes: SpecScenario.                        *)
(***************************************************************************)
MaxFirstSpike == 14

\* 30 bars flat at 100 whose High is 105 at index a and 110 at index b.
SpikeSeries(a, b) ==
  [k \in 1..30 |-> IF k - 1 = a THEN Bar(100, 105, 100, 100)
                   ELSE IF k - 1 = b THEN Bar(100, 110, 100, 100)
                   ELSE Bar(100, 100, 100, 100)]

InitScenario ==
  /\ df \in {SpikeSeries(a, b) : a \in 0..MaxFirstSpike, b \in (MaxFirstSpike + 1)..29}
  /\ TALIB_AVAILABLE = FALSE
  /\ talib_out = <<>>
  /\ call = Idle
  /\ result = None
  /\ BotNotStarted

ScenarioDetectPivotHighs ==
  /\ call = Idle
  /\ \E exclude_recent \in BOOLEAN :
       /\ call' = [fn |-> "detect_pivot_highs", lookback |-> 5,
                   exclude_recent |-> exclude_recent]
       /\ result' = List(detect_pivot_highs(df, 5, exclude_recent))
  /\ UNCHANGED <<df, TALIB_AVAILABLE, talib_out, bot>>

ScenarioResistanceTrendline ==
  /\ call = Idle
  /\ call' = [fn |-> "calculate_resistance_trendline", lookback |-> 5, num_pivots |-> 2]
  /\ result' = calculate_resistance_trendline(df, 5, 2, DefaultExtendBars)
  /\ UNCHANGED <<df, TALIB_AVAILABLE, talib_out, bot>>

\* calculate_linear_regression on the indices and prices of two of the
\* detected pivot highs, confirmed or not.
ScenarioLinearRegression ==
  /\ call = Idle
  /\ \E i, j \in 1..Len(detect_pivot_highs(df, 5, FALSE)) :
       /\ i < j
       /\ LET p == detect_pivot_highs(df, 5, FALSE)[i]
              q == detect_pivot_highs(df, 5, FALSE)[j]
          IN /\ call' = [fn |-> "calculate_linear_regression",
                         x |-> <<p.index, q.index>>, y |-> <<p.price, q.price>>]
             /\ result' = calculate_linear_regression(<<p.index, q.index>>,
                                                      <<p.price, q.price>>)
  /\ UNCHANGED <<df, TALIB_AVAILABLE, talib_out, bot>>

NextScenario ==
  \/ ScenarioDetectPivotHighs
  \/ ScenarioResistanceTrendline
  \/ ScenarioLinearRegression

SpecScenario == InitScenario /\ [][NextScenario]_vars

(***************************************************************************)
(* Claim about the two-spike scenario, checked under SpecScenario.         *)
(***************************************************************************)
\* The bar indices of a list of pivots, in the order of the list.
IndexSeq(pivots) == [k \in 1..Len(pivots) |-> pivots[k].index]

IsScenario == df = SpikeSeries(5, 25)

C9_WitnessRegression ==
  /\ IsScenario
  /\ call.fn = "calculate_linear_regression"
  /\ call.x = <<5, 25>>
  /\ result.slope = Float(1, 4)

(***************************************************************************)
(* finviz_trendlines.py                                                    *)
(***************************************************************************)
\* [(i, values[i]) for i in argrelextrema(values, comparator, order=window)[0]]
significant_points(d, column, comparator, window) ==
  LET Points(values, indices) ==
        [k \in 1..Len(indices) |-> <<indices[k], values[indices[k] + 1]>>]
      Find(values) == Points(values, argrelextrema(values, comparator, window))
  IN Find(Column(d, column))

find_significant_highs(d, window) ==
  significant_points(d, "High", "greater_equal", window)

find_significant_lows(d, window) ==
  significant_points(d, "Low", "less_equal", window)

RECURSIVE SortedSeq(_)
\* The members of a set of integers in ascending order.
SortedSeq(S) ==
  IF S = {} THEN <<>>
  ELSE LET Rest(least) == <<least>> \o SortedSeq(S \ {least})
       IN Rest(CHOOSE x \in S : \A y \in S : x <= y)

RECURSIVE sorted_points(_, _)
\* sorted(all_points), every pair kept: the indices in `order`, each as often
\* as it was collected.
sorted_points(all_points, order) ==
  IF order = <<>> THEN <<>>
  ELSE LET At(idx) == {m \in 1..Len(all_points) : all_points[m][1] = idx}
           Copies(idx, at) == [k \in 1..Cardinality(at) |->
                                 <<idx, all_points[CHOOSE m \in at : TRUE][2]>>]
       IN Copies(Head(order), At(Head(order))) \o sorted_points(all_points, Tail(order))

unique_points_unseen(all_points) ==
  sorted_points(all_points, SortedSeq({all_points[k][1] : k \in 1..Len(all_points)}))

\* The loop over sorted(all_points) that keeps the first pair of each index:
\* the indices ascending, each with the lowest price recorded for it.
unique_points(all_points) ==
  LET PricesAt(idx) == {all_points[k][2] : k \in {m \in 1..Len(all_points) :
                                                   all_points[m][1] = idx}}
      FirstPrice(idx) == CHOOSE p \in PricesAt(idx) : \A q \in PricesAt(idx) : p <= q
      Unique(order) == [k \in 1..Len(order) |-> <<order[k], FirstPrice(order[k])>>]
  IN Unique(SortedSeq({all_points[k][1] : k \in 1..Len(all_points)}))

\* start_idx = max(0, len(df) - lookback)
start_idx_of(d, lookback) == IF Len(d) - lookback > 0 THEN Len(d) - lookback ELSE 0

\* df.iloc[start_idx:] re-indexed from 0
df_work_of(d, lookback) == SubSeq(d, start_idx_of(d, lookback) + 1, Len(d))

unique_highs_of(d, lookback) ==
  LET Collect(df_work) ==
        unique_points(find_significant_highs(df_work, 5)
                      \o find_significant_highs(df_work, 10)
                      \o find_significant_highs(df_work, 15))
  IN Collect(df_work_of(d, lookback))

unique_lows_of(d, lookback) ==
  LET Collect(df_work) ==
        unique_points(find_significant_lows(df_work, 5)
                      \o find_significant_lows(df_work, 10)
                      \o find_significant_lows(df_work, 15))
  IN Collect(df_work_of(d, lookback))

\* The band of 1.5 percent.
band == Float(3, 2)

\* diff_pct of fit_upper_envelope: 0 when the line price is not positive.
upper_diff_pct(price, line_price) ==
  IF FGt(line_price, I(0))
  THEN FMul(FDiv(FSub(I(price), line_price), line_price), I(100))
  ELSE I(0)

\* What one point adds in fit_upper_envelope: <<touches, violations>>.
upper_point_count(price, line_price) ==
  LET Count(diff_pct) ==
        IF FGe(diff_pct, FNeg(band)) /\ FLe(diff_pct, band) THEN <<1, 0>>
        ELSE IF FGt(diff_pct, band) THEN <<0, 1>>
        ELSE <<0, 0>>
  IN Count(upper_diff_pct(price, line_price))

\* What one point adds in fit_lower_envelope; a point where the line price
\* is not positive is skipped.
lower_point_count(price, line_price) ==
  LET Count(diff_pct) ==
        IF FGe(diff_pct, FNeg(band)) /\ FLe(diff_pct, band) THEN <<1, 0>>
        ELSE IF FLt(diff_pct, FNeg(band)) THEN <<0, 1>>
        ELSE <<0, 0>>
  IN IF FLe(line_price, I(0)) THEN <<0, 0>>
     ELSE Count(FMul(FDiv(FSub(I(price), line_price), line_price), I(100)))

RECURSIVE count_points(_, _, _, _, _)
\* The inner loop over the points, from position k on: <<touches, violations>>.
count_points(points, k, slope, intercept, is_upper) ==
  IF k > Len(points) THEN <<0, 0>>
  ELSE LET Add(one, rest) == <<one[1] + rest[1], one[2] + rest[2]>>
           One(line_price) == IF is_upper THEN upper_point_count(points[k][2], line_price)
                              ELSE lower_point_count(points[k][2], line_price)
       IN Add(One(FAdd(FMul(slope, I(points[k][1])), intercept)),
              count_points(points, k + 1, slope, intercept, is_upper))

FinvizTrendline(slope, intercept, start_index, end_index, touches, is_upper) ==
  [kind |-> "FinvizTrendline", slope |-> slope, intercept |-> intercept,
   start_index |-> start_index, end_index |-> end_index, touches |-> touches,
   is_upper |-> is_upper, r_squared |-> Float(9, 10)]

\* score > best_score
better(score, best_score) == FGt(I(score), best_score)

RECURSIVE pair_loop(_, _, _, _, _, _, _, _, _)
\* The two nested loops over the pairs i < j, from the pair (i, j) on, with
\* the best line and score found so far; i and j are positions from 0.
pair_loop(points, i, j, best_line, best_score, start_idx, n, min_touches, is_upper) ==
  IF i >= Len(points) - 1 THEN best_line
  ELSE IF j >= Len(points)
  THEN pair_loop(points, i + 1, i + 2, best_line, best_score, start_idx, n,
                 min_touches, is_upper)
  ELSE
    LET idx1 == points[i + 1][1]
        Keep(slope, intercept, touches, score) ==
          IF touches >= min_touches /\ better(score, best_score)
          THEN pair_loop(points, i, j + 1,
                         FinvizTrendline(slope, intercept, start_idx + idx1, n - 1,
                                         touches, is_upper),
                         I(score), start_idx, n, min_touches, is_upper)
          ELSE pair_loop(points, i, j + 1, best_line, best_score, start_idx, n,
                         min_touches, is_upper)
        Score(slope, intercept, counts) ==
          Keep(slope, intercept, counts[1], counts[1] * 10 - counts[2] * 20)
        Count(slope, intercept) ==
          Score(slope, intercept, count_points(points, 1, slope, intercept, is_upper))
        Through(price1, slope) ==
          Count(slope, FSub(I(price1), FMul(slope, I(idx1))))
    IN Through(points[i + 1][2],
               FDiv(I(points[j + 1][2] - points[i + 1][2]), I(points[j + 1][1] - idx1)))

fit_envelope(points, start_idx, n, min_touches, is_upper) ==
  IF Len(points) < 2 THEN None
  ELSE pair_loop(points, 0, 1, None, Float(-1, 0), start_idx, n, min_touches, is_upper)

fit_upper_envelope(d, lookback, min_touches) ==
  fit_envelope(unique_highs_of(d, lookback), start_idx_of(d, lookback), Len(d),
               min_touches, TRUE)

fit_lower_envelope(d, lookback, min_touches) ==
  fit_envelope(unique_lows_of(d, lookback), start_idx_of(d, lookback), Len(d),
               min_touches, FALSE)

(***************************************************************************)
(* Envelope fits of one series: SpecEnvelope.                              *)
(***************************************************************************)
MaxRun == 4

\* Bars about 1000, one percent apart, and a bar about 10.
EnvelopeBars == {Bar(1000, 1000, 990, 1000), Bar(1010, 1010, 1000, 1010), Bar(10, 10, 8, 10)}

\* Two bars, a run of up to MaxRun equal bars, and two bars: with the run
\* of 4 the ends are more than the smallest window of 5 bars apart.
RunSeries ==
  {head \o [k \in 1..run |-> bar] \o tail :
     head \in [1..2 -> EnvelopeBars], tail \in [1..2 -> EnvelopeBars],
     bar \in EnvelopeBars, run \in 0..MaxRun}

\* A lookback shorter than the longest series, and the default of 100.
EnvelopeLookbacks == {7, 100}

MinTouches == {2, 3}

InitEnvelope ==
  /\ df \in RunSeries
  /\ TALIB_AVAILABLE = FALSE
  /\ talib_out = <<>>
  /\ call = Idle
  /\ result = None
  /\ BotNotStarted

FitUpperEnvelope ==
  /\ call = Idle
  /\ \E lookback \in EnvelopeLookbacks, min_touches \in MinTouches :
       /\ call' = [fn |-> "fit_upper_envelope", lookback |-> lookback,
                   min_touches |-> min_touches]
       /\ result' = fit_upper_envelope(df, lookback, min_touches)
  /\ UNCHANGED <<df, TALIB_AVAILABLE, talib_out, bot>>

FitLowerEnvelope ==
  /\ call = Idle
  /\ \E lookback \in EnvelopeLookbacks, min_touches \in MinTouches :
       /\ call' = [fn |-> "fit_lower_envelope", lookback |-> lookback,
                   min_touches |-> min_touches]
       /\ result' = fit_lower_envelope(df, lookback, min_touches)
  /\ UNCHANGED <<df, TALIB_AVAILABLE, talib_out, bot>>

NextEnvelope ==
  \/ FitUpperEnvelope
  \/ FitLowerEnvelope

SpecEnvelope == InitEnvelope /\ [][NextEnvelope]_vars

(***************************************************************************)
(* Claim about the envelope fit, checked under SpecEnvelope.               *)
(***************************************************************************)
IsEnvelopeCall == call.fn \in {"fit_upper_envelope", "fit_lower_envelope"}

\* The candidate points of the call, in ascending bar index.
CandidatesOfCall ==
  IF call.fn = "fit_upper_envelope" THEN unique_highs_of(df, call.lookback)
  ELSE unique_lows_of(df, call.lookback)

\* The line through candidates i < j has at the index of candidate k the
\* price LineNum / LineDen, with LineDen > 0.
LineDen(points, i, j) == points[j][1] - points[i][1]

LineNum(points, i, j, k) ==
  points[i][2] * LineDen(points, i, j)
    + (points[j][2] - points[i][2]) * (points[k][1] - points[i][1])

\* price - line price, times LineDen
Excess(points, i, j, k) == points[k][2] * LineDen(points, i, j) - LineNum(points, i, j, k)

\* The deviation (price - line) / line * 100 is within [-1.5, 1.5].
TouchPerClaim(points, i, j, k) ==
  /\ LineNum(points, i, j, k) > 0
  /\ 200 * Abs(Excess(points, i, j, k)) <= 3 * LineNum(points, i, j, k)

\* The deviation is beyond 1.5 on the forbidden side.
ViolationPerClaim(points, i, j, k, is_upper) ==
  /\ LineNum(points, i, j, k) > 0
  /\ IF is_upper THEN 200 * Excess(points, i, j, k) > 3 * LineNum(points, i, j, k)
     ELSE 200 * (-Excess(points, i, j, k)) > 3 * LineNum(points, i, j, k)

TouchesPerClaim(points, i, j) ==
  Cardinality({k \in 1..Len(points) : TouchPerClaim(points, i, j, k)})

ScorePairPerClaim(points, i, j, is_upper) ==
  TouchesPerClaim(points, i, j) * 10
    - Cardinality({k \in 1..Len(points) : ViolationPerClaim(points, i, j, k, is_upper)}) * 20

EligiblePerClaim(points, min_touches) ==
  {e \in (1..Len(points)) \X (1..Len(points)) :
     e[1] < e[2] /\ TouchesPerClaim(points, e[1], e[2]) >= min_touches}

\* The eligible pair of highest score, the first in loop order among equals.
BestPerClaim(points, min_touches, is_upper) ==
  CHOOSE e \in EligiblePerClaim(points, min_touches) :
    \A f \in EligiblePerClaim(points, min_touches) :
      \/ ScorePairPerClaim(points, e[1], e[2], is_upper)
           > ScorePairPerClaim(points, f[1], f[2], is_upper)
      \/ /\ ScorePairPerClaim(points, e[1], e[2], is_upper)
              = ScorePairPerClaim(points, f[1], f[2], is_upper)
         /\ (e[1] < f[1] \/ (e[1] = f[1] /\ e[2] <= f[2]))

\* result is the line through candidates e[1] and e[2]
IsLineThrough(points, e) ==
  /\ result # None
  /\ result.slope = Float(points[e[2]][2] - points[e[1]][2], LineDen(points, e[1], e[2]))
  /\ result.intercept =
       Float(points[e[1]][2] * LineDen(points, e[1], e[2])
               - (points[e[2]][2] - points[e[1]][2]) * points[e[1]][1],
             LineDen(points, e[1], e[2]))

ReturnsBestPerClaim(points, min_touches, is_upper) ==
  IF EligiblePerClaim(points, min_touches) = {} THEN result = None
  ELSE IsLineThrough(points, BestPerClaim(points, min_touches, is_upper))

\* C10: fit_upper_envelope and fit_lower_envelope return the line through
\* the pair of candidate points i < j of highest score touches * 10 -
\* violations * 20 among the pairs with touches >= min_touches, the first
\* pair in loop order among equal scores, and None when no pair has enough
\* touches; a touch is a candidate point whose percentage deviation from
\* the line is within [-1.5, 1.5], a violation one beyond 1.5 percent above
\* (upper) or below (lower) the line, and a point where the line price is
\* not positive is neither.
C10_EnvelopeIsBestScoringPair ==
  IsEnvelopeCall =>
    ReturnsBestPerClaim(CandidatesOfCall, call.min_touches,
                        call.fn = "fit_upper_envelope")

\* C11: fit_upper_envelope and fit_lower_envelope return None if and only
\* if no pair of candidate points has touches >= min_touches (fewer than
\* two candidate points included), a touch being a candidate point within
\* 1.5 percent of the line; a returned line reports touches >= min_touches.
C11_NoneIffNoPairHasEnoughTouches ==
  IsEnvelopeCall =>
    /\ (result = None) <=> (EligiblePerClaim(CandidatesOfCall, call.min_touches) = {})
    /\ result # None => result.touches >= call.min_touches

(***************************************************************************)
(* Manual candle classification of one series: SpecManual.                 *)
(***************************************************************************)
MaxHammerLen == 2

\* Prices in tenths.  A zero-range bar; the hammer open 10, high 10.2,
\* low 9.0, close 10.1 and its bearish twin; a hammer with close = open; an
\* inverted hammer; a bar with both wicks 0.4 of the range; a hammer shape
\* whose range is under 1 percent of the close; a hammer with the wicks
\* exactly 0.55 and 0.25 of the range, and one with a lower wick of 0.5; a
\* full-body bar; a hammer whose range is exactly 1 percent of the close.
HammerBars ==
  {Bar(100, 100, 100, 100), Bar(100, 102, 90, 101), Bar(101, 102, 90, 100),
   Bar(100, 100, 90, 100), Bar(91, 102, 90, 92), Bar(104, 110, 100, 106),
   Bar(1004, 1005, 1000, 1005), Bar(111, 120, 100, 115), Bar(110, 120, 100, 115),
   Bar(100, 110, 100, 110), Bar(100, 100, 99, 100)}

Thresholds(lower_wick_min_pct, upper_wick_max_pct, body_max_pct, min_range_pct) ==
  [lower_wick_min_pct |-> lower_wick_min_pct, upper_wick_max_pct |-> upper_wick_max_pct,
   body_max_pct |-> body_max_pct, min_range_pct |-> min_range_pct]

DefaultThresholds == Thresholds(Float(55, 100), Float(25, 100), Float(45, 100), I(1))

\* The defaults, wicks of 0.3 and 0.5, and no range filter.
ThresholdSettings ==
  {DefaultThresholds,
   Thresholds(Float(30, 100), Float(50, 100), Float(45, 100), I(1)),
   Thresholds(Float(55, 100), Float(25, 100), Float(45, 100), I(0))}

InitManual ==
  /\ df \in SeriesUpTo(HammerBars, MaxHammerLen)
  /\ TALIB_AVAILABLE = FALSE
  /\ talib_out = <<>>
  /\ call = Idle
  /\ result = None
  /\ BotNotStarted

\* detect_hammer_manual(df)
DetectHammerManualDefault ==
  /\ call = Idle
  /\ call' = [fn |-> "detect_hammer_manual", defaults |-> TRUE,
              thresholds |-> DefaultThresholds]
  /\ result' = [kind |-> "list", items |-> detect_hammer_manual_default(df),
                divisions |-> manual_divisions(df, 0)]
  /\ UNCHANGED <<df, TALIB_AVAILABLE, talib_out, bot>>

\* detect_hammer_manual(df, lower_wick_min_pct, upper_wick_max_pct,
\* body_max_pct, min_range_pct)
DetectHammerManual ==
  /\ call = Idle
  /\ \E t \in ThresholdSettings :
       /\ call' = [fn |-> "detect_hammer_manual", defaults |-> FALSE, thresholds |-> t]
       /\ result' = [kind |-> "list",
                     items |-> detect_hammer_manual(df, t.lower_wick_min_pct,
                                                    t.upper_wick_max_pct,
                                                    t.body_max_pct, t.min_range_pct),
                     divisions |-> manual_divisions(df, 0)]
  /\ UNCHANGED <<df, TALIB_AVAILABLE, talib_out, bot>>

NextManual ==
  \/ DetectHammerManualDefault
  \/ DetectHammerManual

SpecManual == InitManual /\ [][NextManual]_vars

(***************************************************************************)
(* Claims about the manual classification, checked under SpecManual.       *)
(***************************************************************************)
IsManualCall == call.fn = "detect_hammer_manual"

\* The pattern kinds of the signals of bar index i, in list order.
KindsAt(items, i) ==
  LET At(s) == s.index = i
      Kinds(at) == [k \in 1..Len(at) |-> at[k].pattern_type]
  IN Kinds(SelectSeq(items, At))

\* The pattern kinds the call gives the bar when it is alone in the series.
KindsAlone(bar, t) ==
  KindsAt(detect_hammer_manual(<<bar>>, t.lower_wick_min_pct, t.upper_wick_max_pct,
                               t.body_max_pct, t.min_range_pct), 0)

\* C12: detect_hammer_manual emits no signal for a bar with High = Low and
\* divides by no zero range; the other bars of the series are classified as
\* they are without it.
C12_ZeroRangeBarsAreSkipped ==
  IsManualCall =>
    /\ \A i \in 0..(Len(df) - 1) :
         IF df[i + 1].High = df[i + 1].Low
         THEN KindsAt(result.items, i) = <<>>
         ELSE KindsAt(result.items, i) = KindsAlone(df[i + 1], call.thresholds)
    /\ \A k \in 1..Len(result.divisions) :
         result.divisions[k].by = "total_range" => result.divisions[k].value # 0

\* A zero-range bar followed by the hammer 10 / 10.2 / 9.0 / 10.1: one
\* signal, at index 1.
C12_Witness ==
  /\ IsManualCall
  /\ df = <<Bar(100, 100, 100, 100), Bar(100, 102, 90, 101)>>
  /\ Len(result.items) = 1
  /\ result.items[1].index = 1
  /\ Len(result.divisions) = 4

\* The parts of a bar, in price units.
RangeOf(bar) == bar.High - bar.Low

BodyOf(bar) == Abs(bar.Close - bar.Open)

LowerWickOf(bar) == (IF bar.Open < bar.Close THEN bar.Open ELSE bar.Close) - bar.Low

UpperWickOf(bar) == bar.High - (IF bar.Open > bar.Close THEN bar.Open ELSE bar.Close)

\* range > 0 and range / Close * 100 >= 1.0, for a close that is not negative
PassesRangeFilter(bar) == RangeOf(bar) > 0 /\ RangeOf(bar) * 100 >= bar.Close

\* long / range >= 0.55, short / range <= 0.25 and body / range <= 0.45
DefaultShape(bar, long, short) ==
  /\ long * 100 >= 55 * RangeOf(bar)
  /\ short * 100 <= 25 * RangeOf(bar)
  /\ BodyOf(bar) * 100 <= 45 * RangeOf(bar)

KindsPerClaim(bar) ==
  IF PassesRangeFilter(bar) /\ DefaultShape(bar, LowerWickOf(bar), UpperWickOf(bar))
  THEN <<"hammer">>
  ELSE IF PassesRangeFilter(bar) /\ DefaultShape(bar, UpperWickOf(bar), LowerWickOf(bar))
  THEN <<"inverted_hammer">>
  ELSE <<>>

\* C13: with the default thresholds a bar is labelled hammer iff its range
\* is positive and at least 1 percent of the close, its lower wick at least
\* 0.55, its upper wick at most 0.25 and its body at most 0.45 of the range;
\* inverted_hammer iff the same holds with the wicks swapped; nothing
\* otherwise.  The bar open 10, high 10.2, low 9.0, close 10.1 is a hammer.
C13_DefaultClassification ==
  (IsManualCall /\ call.thresholds = DefaultThresholds) =>
    \A i \in 0..(Len(df) - 1) :
      /\ KindsAt(result.items, i) = KindsPerClaim(df[i + 1])
      /\ df[i + 1] = Bar(100, 102, 90, 101) => KindsAt(result.items, i) = <<"hammer">>

\* The default call has labelled the bar 10 / 10.2 / 9.0 / 10.1 a hammer and
\* left the bar with a lower wick of 0.5 of the range unlabelled.
C13_Witness ==
  /\ IsManualCall
  /\ call.defaults
  /\ df = <<Bar(100, 102, 90, 101), Bar(110, 120, 100, 115)>>
  /\ Len(result.items) = 1
  /\ result.items[1].pattern_type = "hammer"
  /\ result.items[1].index = 0

\* The hammer condition of the call's thresholds on a bar that passes the
\* range filter, and the same with the wicks swapped.
ShapeHolds(bar, t, long, short) ==
  /\ RangeOf(bar) > 0
  /\ FGe(FMul(FDiv(I(RangeOf(bar)), I(bar.Close)), I(100)), t.min_range_pct)
  /\ FGe(FDiv(I(long), I(RangeOf(bar))), t.lower_wick_min_pct)
  /\ FLe(FDiv(I(short), I(RangeOf(bar))), t.upper_wick_max_pct)
  /\ FLe(FDiv(I(BodyOf(bar)), I(RangeOf(bar))), t.body_max_pct)

\* C14: detect_hammer_manual gives a bar at most one pattern kind, and for
\* every setting of the thresholds a bar on which both the hammer and the
\* inverted-hammer condition hold is labelled hammer.
C14_HammerHasPriority ==
  IsManualCall =>
    \A i \in 0..(Len(df) - 1) :
      /\ Len(KindsAt(result.items, i)) <= 1
      /\ (/\ ShapeHolds(df[i + 1], call.thresholds, LowerWickOf(df[i + 1]),
                        UpperWickOf(df[i + 1]))
          /\ ShapeHolds(df[i + 1], call.thresholds, UpperWickOf(df[i + 1]),
                        LowerWickOf(df[i + 1])))
           => KindsAt(result.items, i) = <<"hammer">>

\* C15: every signal of detect_hammer_manual has is_bullish equal to
\* Close > Open of its own bar, whatever its pattern kind and the other
\* bars; a bar with Close = Open is not bullish.
C15_BullishIffCloseAboveOpen ==
  IsManualCall =>
    \A k \in 1..Len(result.items) :
      result.items[k].is_bullish
        <=> (df[result.items[k].index + 1].Close > df[result.items[k].index + 1].Open)

\* A hammer with close = open next to a bullish inverted hammer: the first
\* is not bullish, the second is.
C15_Witness ==
  /\ IsManualCall
  /\ df = <<Bar(100, 100, 90, 100), Bar(91, 102, 90, 92)>>
  /\ Len(result.items) = 2
  /\ ~result.items[1].is_bullish
  /\ result.items[2].is_bullish
  /\ result.items[2].pattern_type = "inverted_hammer"

(***************************************************************************)
(* Vendor-based candle classification of one series: SpecTalib.            *)
(***************************************************************************)
MaxTalibLen == 2

TalibBars == {Bar(100, 102, 90, 101), Bar(101, 101, 99, 101)}

\* The vendor library reports a bullish pattern as 100, a bearish one as
\* -100 and no pattern as 0; every combination of the four outputs.
VendorRows ==
  {Row(hammer, inverted, hanging, shooting) :
     hammer \in {0, 100}, inverted \in {0, 100},
     hanging \in {0, -100}, shooting \in {0, -100}}

InitTalib ==
  /\ df \in SeriesUpTo(TalibBars, MaxTalibLen)
  /\ TALIB_AVAILABLE \in BOOLEAN
  /\ talib_out \in (IF TALIB_AVAILABLE THEN [1..Len(df) -> VendorRows] ELSE {<<>>})
  /\ call = Idle
  /\ result = None
  /\ BotNotStarted

\* detect_hammer_talib(df)
DetectHammerTalib ==
  /\ call = Idle
  /\ call' = [fn |-> "detect_hammer_talib"]
  /\ result' = List(detect_hammer_talib(df))
  /\ UNCHANGED <<df, TALIB_AVAILABLE, talib_out, bot>>

NextTalib == DetectHammerTalib

SpecTalib == InitTalib /\ [][NextTalib]_vars

(***************************************************************************)
(* Claims about the vendor-based classification, checked under SpecTalib.  *)
(***************************************************************************)
IsTalibCall == call.fn = "detect_hammer_talib" /\ TALIB_AVAILABLE

\* The signals of bar index i, in list order.
SignalsAt(items, i) ==
  LET At(s) == s.index = i
  IN SelectSeq(items, At)

\* Pattern kind and direction of a bar by the priority of the claim.
TalibKindPerClaim(row) ==
  IF row.CDLHAMMER # 0 THEN <<"hammer", TRUE>>
  ELSE IF row.CDLINVERTEDHAMMER # 0 THEN <<"inverted_hammer", TRUE>>
  ELSE IF row.CDLHANGINGMAN # 0 THEN <<"hanging_man", FALSE>>
  ELSE <<"shooting_star", FALSE>>

AllZero(row) ==
  /\ row.CDLHAMMER = 0
  /\ row.CDLINVERTEDHAMMER = 0
  /\ row.CDLHANGINGMAN = 0
  /\ row.CDLSHOOTINGSTAR = 0

\* C16: with the vendor library, detect_hammer_talib emits at most one signal
\* per bar, of the first kind in the order hammer, inverted_hammer,
\* hanging_man, shooting_star whose output is not 0; is_bullish is true for
\* the first two kinds and false for the other two; a bar with four outputs
\* of 0 has no signal; the signals are in ascending order of bar index.
C16_TalibPriority ==
  IsTalibCall =>
    /\ \A i \in 0..(Len(df) - 1) :
         IF AllZero(talib_out[i + 1])
         THEN SignalsAt(result.items, i) = <<>>
         ELSE /\ Len(SignalsAt(result.items, i)) = 1
              /\ <<SignalsAt(result.items, i)[1].pattern_type,
                   SignalsAt(result.items, i)[1].is_bullish>>
                   = TalibKindPerClaim(talib_out[i + 1])
    /\ \A k \in 1..(Len(result.items) - 1) :
         result.items[k].index < result.items[k + 1].index

\* All four outputs set on bar 0 and the two bearish ones on bar 1: a
\* bullish hammer at index 0 and a hanging man at index 1.
C16_Witness ==
  /\ IsTalibCall
  /\ Len(df) = 2
  /\ talib_out = <<Row(100, 100, -100, -100), Row(0, 0, -100, -100)>>
  /\ Len(result.items) = 2
  /\ result.items[1].pattern_type = "hammer"
  /\ result.items[1].is_bullish
  /\ result.items[2].pattern_type = "hanging_man"
  /\ ~result.items[2].is_bullish

(***************************************************************************)
(* finviz_direct.py                                                        *)
(***************************************************************************)
\* p.get(key, default) on a parsed JSON object
Get(p, key, default) == IF key \in DOMAIN p THEN p[key] ELSE default

FinvizPattern(kind, strength, status, bounces, x1, y1, x2, y2) ==
  [kind |-> kind, strength |-> strength, status |-> status, bounces |-> bounces,
   x1 |-> x1, y1 |-> y1, x2 |-> x2, y2 |-> y2]

FinvizPatternOf(p) ==
  FinvizPattern(Get(p, "kind", 0), Get(p, "strength", 0), Get(p, "status", 0),
                Get(p, "bounces", 0), Get(p, "x1", 0), Get(p, "y1", 0),
                Get(p, "x2", 0), Get(p, "y2", 0))

FinvizTrendlines(symbol, min_price, max_price, upper, lower) ==
  [kind |-> "FinvizTrendlines", symbol |-> symbol, min_price |-> min_price,
   max_price |-> max_price, upper |-> upper, lower |-> lower, chart_bars |-> 500]

\* The loop over patterns_data from entry k on; sel holds upper, lower,
\* upper_strength and lower_strength.
RECURSIVE finviz_pattern_loop(_, _, _)
finviz_pattern_loop(patterns_data, k, sel) ==
  IF k > Len(patterns_data) THEN sel
  ELSE LET Visit(pattern) ==
             IF pattern.kind = 2
             THEN IF pattern.status = 1 /\ pattern.strength > sel.upper_strength
                  THEN [sel EXCEPT !.upper = pattern, !.upper_strength = pattern.strength]
                  ELSE sel
             ELSE IF pattern.kind = 3
             THEN IF pattern.status = 1 /\ pattern.strength > sel.lower_strength
                  THEN [sel EXCEPT !.lower = pattern, !.lower_strength = pattern.strength]
                  ELSE sel
             ELSE sel
       IN finviz_pattern_loop(patterns_data, k + 1, Visit(FinvizPatternOf(patterns_data[k])))

\* response: the status code of the quote page, the "patterns" array found in
\* it and its "patternsMinRange" / "patternsMaxRange" pair, None where the
\* page has none.
fetch_finviz_patterns(symbol, response) ==
  IF response.status_code # 200 THEN None
  ELSE IF response.patterns = None THEN None
  ELSE IF response.range = None THEN None
  ELSE LET Build(sel) ==
             FinvizTrendlines(symbol, response.range.min_price, response.range.max_price,
                              sel.upper, sel.lower)
       IN Build(finviz_pattern_loop(response.patterns.items, 1,
                                    [upper |-> None, lower |-> None,
                                     upper_strength |-> 0, lower_strength |-> 0]))

DefaultHeight == 400

\* y is a float: scan_for_hammers passes an interpolated pixel height.
y_to_price(y, min_price, max_price, height) ==
  FSub(max_price, FMul(FDiv(y, I(height)), FSub(max_price, min_price)))

get_trendline_price_from_origin(pattern, bar_index, min_price, max_price) ==
  LET Line(price1, price2) ==
        IF pattern.x2 = pattern.x1 THEN price1
        ELSE FAdd(price1, FMul(FDiv(FSub(price2, price1), I(pattern.x2 - pattern.x1)),
                               I(bar_index)))
  IN Line(y_to_price(I(pattern.y1), min_price, max_price, DefaultHeight),
          y_to_price(I(pattern.y2), min_price, max_price, DefaultHeight))

get_trendline_price(pattern, bar_index, min_price, max_price) ==
  LET Line(price1, price2) ==
        IF pattern.x2 = pattern.x1 THEN price1
        ELSE FAdd(price1, FMul(FDiv(FSub(price2, price1), I(pattern.x2 - pattern.x1)),
                               I(bar_index - pattern.x1)))
  IN Line(y_to_price(I(pattern.y1), min_price, max_price, DefaultHeight),
          y_to_price(I(pattern.y2), min_price, max_price, DefaultHeight))

(***************************************************************************)
(* Vendor pattern lines: SpecFinviz.                                       *)
(***************************************************************************)
MaxPatterns == 3

\* Parsed entries of the "patterns" array: every kind, status and strength,
\* and active trendline entries without a "strength" key.
PatternObjects ==
  {[kind |-> kind, status |-> status, strength |-> strength] :
     kind \in 1..3, status \in 0..1, strength \in 0..2}
  \cup {[kind |-> kind, status |-> 1] : kind \in 2..3}

PriceRanges == {[min_price |-> I(50), max_price |-> I(150)],
                [min_price |-> Float(905, 10), max_price |-> Float(1021, 10)]}

Responses ==
  {[status_code |-> 404, patterns |-> None, range |-> None],
   [status_code |-> 200, patterns |-> None, range |-> [min_price |-> I(50), max_price |-> I(150)]],
   [status_code |-> 200, patterns |-> List(<<>>), range |-> None]}
  \cup {[status_code |-> 200, patterns |-> List(items), range |-> [min_price |-> I(50), max_price |-> I(150)]] :
          items \in SeriesUpTo(PatternObjects, MaxPatterns)}

PixelXs == {0, 250, 500}

PixelYs == {0, 100, 200, 400}

Heights == {200, 400}

LinePatterns ==
  {FinvizPattern(kind, 1, 1, 2, x1, y1, x2, y2) :
     kind \in 2..3, x1 \in PixelXs, y1 \in PixelYs, x2 \in PixelXs, y2 \in PixelYs}

BarIndices == {0, 250, 495, 500}

InitFinviz ==
  /\ df = <<>>
  /\ TALIB_AVAILABLE = FALSE
  /\ talib_out = <<>>
  /\ call = Idle
  /\ result = None
  /\ BotNotStarted

\* fetch_finviz_patterns(symbol)
FetchFinvizPatterns ==
  /\ call = Idle
  /\ \E response \in Responses :
       /\ call' = [fn |-> "fetch_finviz_patterns", symbol |-> "AAPL",
                   response |-> response]
       /\ result' = fetch_finviz_patterns("AAPL", response)
  /\ UNCHANGED <<df, TALIB_AVAILABLE, talib_out, bot>>

\* y_to_price(y, min_price, max_price, height)
YToPrice ==
  /\ call = Idle
  /\ \E y \in PixelYs, range \in PriceRanges, height \in Heights :
       /\ call' = [fn |-> "y_to_price", y |-> y, min_price |-> range.min_price,
                   max_price |-> range.max_price, height |-> height]
       /\ result' = [kind |-> "float",
                     value |-> y_to_price(I(y), range.min_price, range.max_price, height)]
  /\ UNCHANGED <<df, TALIB_AVAILABLE, talib_out, bot>>

\* get_trendline_price(pattern, bar_index, min_price, max_price)
GetTrendlinePrice ==
  /\ call = Idle
  /\ \E pattern \in LinePatterns, bar_index \in BarIndices, range \in PriceRanges :
       /\ call' = [fn |-> "get_trendline_price", pattern |-> pattern,
                   bar_index |-> bar_index, min_price |-> range.min_price,
                   max_price |-> range.max_price]
       /\ result' = [kind |-> "float",
                     value |-> get_trendline_price(pattern, bar_index, range.min_price,
                                                   range.max_price)]
  /\ UNCHANGED <<df, TALIB_AVAILABLE, talib_out, bot>>

NextFinviz ==
  \/ FetchFinvizPatterns
  \/ YToPrice
  \/ GetTrendlinePrice

SpecFinviz == InitFinviz /\ [][NextFinviz]_vars

(***************************************************************************)
(* Claims about the vendor pattern lines, checked under SpecFinviz.        *)
(***************************************************************************)
\* max_price - (y / height) * (max_price - min_price)
PricePerClaim(y, min_price, max_price, height) ==
  FSub(max_price, FMul(Float(y, height), FSub(max_price, min_price)))

\* price1 + slope * (bar_index - x1) with slope = (price2 - price1) / (x2 - x1)
LinePricePerClaim(price1, price2, x1, x2, bar_index) ==
  FAdd(price1, FMul(FDiv(FSub(price2, price1), I(x2 - x1)), I(bar_index - x1)))

TrendlinePricePerClaim(price1, price2) ==
  IF call.pattern.x1 = call.pattern.x2
  THEN result = [kind |-> "float", value |-> price1]
  ELSE /\ result = [kind |-> "float",
                    value |-> LinePricePerClaim(price1, price2, call.pattern.x1,
                                                call.pattern.x2, call.bar_index)]
       /\ call.bar_index = call.pattern.x1 => result.value = price1
       /\ call.bar_index = call.pattern.x2 => result.value = price2

\* C17: y_to_price returns max_price - (y / height) * (max_price - min_price),
\* which is 100 for y = 200, min 50, max 150 and height 400;
\* get_trendline_price returns price1 + slope * (bar_index - x1) with
\* slope = (price2 - price1) / (x2 - x1), which is price1 at x1 and price2 at
\* x2, and for x1 = x2 it returns price1 at every bar index and raises
\* nothing.
C17_PixelToPriceAndLinePrice ==
  /\ call.fn = "y_to_price" =>
       /\ result = [kind |-> "float",
                    value |-> PricePerClaim(call.y, call.min_price, call.max_price,
                                            call.height)]
       /\ (call.y = 200 /\ call.min_price = I(50) /\ call.max_price = I(150)
           /\ call.height = 400) => result.value = I(100)
  /\ call.fn = "get_trendline_price" =>
       TrendlinePricePerClaim(
         PricePerClaim(call.pattern.y1, call.min_price, call.max_price, 400),
         PricePerClaim(call.pattern.y2, call.min_price, call.max_price, 400))

\* The line from pixel (250, 400) to pixel (500, 0) on a chart from 50 to
\* 150, read at bar 495: 50 + 0.4 * 245 = 148.
C17_Witness ==
  /\ call.fn = "get_trendline_price"
  /\ call.pattern.x1 = 250
  /\ call.pattern.y1 = 400
  /\ call.pattern.x2 = 500
  /\ call.pattern.y2 = 0
  /\ call.bar_index = 495
  /\ call.min_price = I(50)
  /\ call.max_price = I(150)
  /\ result.value = I(148)

\* The entries of the fetched array, with the defaults of absent keys.
PatternsOfCall ==
  [k \in 1..Len(call.response.patterns.items) |->
     FinvizPatternOf(call.response.patterns.items[k])]

\* A side holds an active pattern of its kind of maximal strength, and is
\* empty exactly when there is no active pattern of its kind.
SidePerClaim(side, kind, patterns) ==
  LET Active == {k \in 1..Len(patterns) :
                   patterns[k].kind = kind /\ patterns[k].status = 1}
  IN IF Active = {} THEN side = None
     ELSE \E k \in Active :
            /\ side = patterns[k]
            /\ \A j \in Active : patterns[j].strength <= patterns[k].strength

\* C18: for every list of vendor patterns fetch_finviz_patterns retains on
\* each side (kind 2 upper, kind 3 lower) an active pattern of maximal
\* strength among the active patterns of that kind; a side is empty only when
\* there is no active pattern of its kind; no inactive pattern and no pattern
\* of another kind is retained.
C18_ActivePatternOfMaximalStrength ==
  (call.fn = "fetch_finviz_patterns" /\ result # None) =>
    /\ SidePerClaim(result.upper, 2, PatternsOfCall)
    /\ SidePerClaim(result.lower, 3, PatternsOfCall)

(***************************************************************************)
(* trendline_calculator.py: Trendline.is_broken, and SpecBroken.           *)
(***************************************************************************)
is_broken_inclusive(trendline, price, index, tolerance) ==
  LET Test(trendline_price) ==
        IF trendline.is_resistance
        THEN FGe(price, FMul(trendline_price, FAdd(I(1), tolerance)))
        ELSE FLe(price, FMul(trendline_price, FSub(I(1), tolerance)))
  IN Test(get_price_at_index(trendline, index))

is_broken(trendline, price, index, tolerance) ==
  LET Test(trendline_price) ==
        IF trendline.is_resistance
        THEN FGt(price, FMul(trendline_price, FAdd(I(1), tolerance)))
        ELSE FLt(price, FMul(trendline_price, FSub(I(1), tolerance)))
  IN Test(get_price_at_index(trendline, index))

\* tolerance: float = 0.002
DefaultBreakTolerance == Float(2, 1000)

\* Rising, flat and falling lines, one of them below zero.
BrokenLines ==
  {[kind |-> "Trendline", slope |-> m, intercept |-> b, start_index |-> 0,
    end_index |-> 3 + DefaultExtendBars, start_price |-> 100, end_price |-> b,
    pivot_points |-> <<>>, is_resistance |-> r, r_squared |-> I(1)] :
     m \in {I(0), Float(1, 2), I(-1)}, b \in {I(100), I(0), I(-100)}, r \in BOOLEAN}

\* Prices on, just inside and just outside the 0.2 and 1 percent bands of a
\* line price of 100, and far from it.
BrokenPrices ==
  {I(100), Float(998, 10), Float(997, 10), Float(1002, 10), Float(1003, 10),
   I(99), I(101), Float(989, 10), Float(1011, 10), I(0), I(-100), Float(-1002, 10),
   Float(-998, 10), I(98), I(102)}

BreakTolerances == {DefaultBreakTolerance, Float(1, 100), I(0)}

MaxBrokenIndex == 2

InitBroken ==
  /\ df = <<>>
  /\ TALIB_AVAILABLE = FALSE
  /\ talib_out = <<>>
  /\ call = Idle
  /\ result = None
  /\ BotNotStarted

\* trendline.is_broken(price, index)
IsBrokenDefault ==
  /\ call = Idle
  /\ \E trendline \in BrokenLines, price \in BrokenPrices, index \in 0..MaxBrokenIndex :
       /\ call' = [fn |-> "is_broken", trendline |-> trendline, price |-> price,
                   index |-> index, tolerance |-> DefaultBreakTolerance, defaults |-> TRUE]
       /\ result' = [kind |-> "bool",
                     value |-> is_broken(trendline, price, index, DefaultBreakTolerance)]
  /\ UNCHANGED <<df, TALIB_AVAILABLE, talib_out, bot>>

\* trendline.is_broken(price, index, tolerance)
IsBroken ==
  /\ call = Idle
  /\ \E trendline \in BrokenLines, price \in BrokenPrices, index \in 0..MaxBrokenIndex,
        tolerance \in BreakTolerances :
       /\ call' = [fn |-> "is_broken", trendline |-> trendline, price |-> price,
                   index |-> index, tolerance |-> tolerance, defaults |-> FALSE]
       /\ result' = [kind |-> "bool",
                     value |-> is_broken(trendline, price, index, tolerance)]
  /\ UNCHANGED <<df, TALIB_AVAILABLE, talib_out, bot>>

NextBroken ==
  \/ IsBrokenDefault
  \/ IsBroken

SpecBroken == InitBroken /\ [][NextBroken]_vars

(***************************************************************************)
(* Claims about Trendline.is_broken, checked under SpecBroken.             *)
(***************************************************************************)
\* slope * index + intercept of the call's line
LinePriceOfCall == FAdd(FMul(call.trendline.slope, I(call.index)), call.trendline.intercept)

UpperEdge(line_price) == FMul(line_price, FAdd(I(1), call.tolerance))

LowerEdge(line_price) == FMul(line_price, FSub(I(1), call.tolerance))

BrokenPerClaim(line_price) ==
  /\ call.trendline.is_resistance
       => (result.value <=> FGt(call.price, UpperEdge(line_price)))
  /\ ~call.trendline.is_resistance
       => (result.value <=> FLt(call.price, LowerEdge(line_price)))
  /\ FGt(line_price, I(0)) =>
       /\ (FGe(call.price, LowerEdge(line_price)) /\ FLe(call.price, UpperEdge(line_price)))
            => ~result.value
       /\ (call.trendline.is_resistance /\ FLe(call.price, line_price)) => ~result.value
       /\ (~call.trendline.is_resistance /\ FGe(call.price, line_price)) => ~result.value

\* C19: is_broken(price, index, tolerance) is true for a resistance line iff
\* price > line_price * (1 + tolerance) and for a support line iff
\* price < line_price * (1 - tolerance), line_price being
\* slope * index + intercept; over a positive line price, a price within the
\* tolerance band or on the permitted side of the line is not reported
\* broken.
C19_BrokenOnlyBeyondTolerance ==
  call.fn = "is_broken" => BrokenPerClaim(LinePriceOfCall)

\* A flat resistance line at 100 with the default tolerance: 100.2 is on the
\* edge of the band and not a break.
C19_Witness ==
  /\ call.fn = "is_broken"
  /\ call.trendline.is_resistance
  /\ LinePriceOfCall = I(100)
  /\ call.tolerance = Float(2, 1000)
  /\ call.price = Float(1002, 10)
  /\ result.value = FALSE

(***************************************************************************)
(* The recommendation text of a signal: SpecAction.                        *)
(***************************************************************************)
\* The three strengths of evaluate_signal_strength and another string.
StrengthNames == {"STRONG", "MODERATE", "WEAK", "strong"}

InitAction ==
  /\ df = <<>>
  /\ TALIB_AVAILABLE = FALSE
  /\ talib_out = <<>>
  /\ call = Idle
  /\ result = None
  /\ BotNotStarted

\* get_action_recommendation(trendline, hammer, strength)
GetActionRecommendation ==
  /\ call = Idle
  /\ \E trendline \in StrengthLines, hammer \in StrengthHammers,
        strength \in StrengthNames :
       /\ call' = [fn |-> "get_action_recommendation", trendline |-> trendline,
                   hammer |-> hammer, strength |-> strength]
       /\ result' = [kind |-> "str",
                     value |-> get_action_recommendation(trendline, hammer, strength)]
  /\ UNCHANGED <<df, TALIB_AVAILABLE, talib_out, bot>>

NextAction == GetActionRecommendation

SpecAction == InitAction /\ [][NextAction]_vars

\* C20: get_action_recommendation returns a text for every input: on a
\* resistance line "watch for breakout" for a bullish hammer of strength
\* STRONG and "potential reversal down" otherwise; on a support line "buy
\* signal" for a bullish hammer whatever the strength and "watch for bounce"
\* for a hammer that is not bullish.
C20_RecommendationTable ==
  call.fn = "get_action_recommendation" =>
    /\ result.kind = "str"
    /\ result.value =
         (IF call.trendline.is_resistance /\ call.hammer.is_bullish
             /\ call.strength = "STRONG"
          THEN "WATCH FOR BREAKOUT"
          ELSE IF call.trendline.is_resistance THEN "POTENTIAL REVERSAL DOWN"
          ELSE IF call.hammer.is_bullish THEN "BUY SIGNAL"
          ELSE "WATCH FOR BOUNCE")

\* A bullish hammer of MODERATE strength on a resistance line: a reversal
\* warning, not a breakout watch.
C20_Witness ==
  /\ call.fn = "get_action_recommendation"
  /\ call.trendline.is_resistance
  /\ call.hammer.is_bullish
  /\ call.strength = "MODERATE"
  /\ result.value = "POTENTIAL REVERSAL DOWN"

(***************************************************************************)
(* Claims about a scan with one line missing, checked under Spec.          *)
(***************************************************************************)
IsFindAllCall == call.fn = "find_all_trendline_hammer_signals"

ResistanceOfCall == calculate_resistance_trendline(df, call.lookback, 2, DefaultExtendBars)

SupportOfCall == calculate_support_trendline(df, call.lookback, 2, DefaultExtendBars)

\* C22: when no resistance line can be fitted but a support line can,
\* find_all_trendline_hammer_signals returns exactly the signals of
\* find_hammer_on_support, and when only the resistance line exists exactly
\* those of find_hammer_on_resistance; nothing is raised.
C22_OneLineAloneStillYieldsItsSignals ==
  IsFindAllCall =>
    /\ result.kind = "list"
    /\ (ResistanceOfCall = None /\ SupportOfCall # None)
         => result.items = find_hammer_on_support(df, call.lookback, call.tolerance_pct)
    /\ (ResistanceOfCall # None /\ SupportOfCall = None)
         => result.items = find_hammer_on_resistance(df, call.lookback, call.tolerance_pct)

\* A series with a support line and no resistance line whose scan returns
\* support signals.
C22_Witness ==
  /\ IsFindAllCall
  /\ ResistanceOfCall = None
  /\ SupportOfCall # None
  /\ result.items # <<>>
  /\ \A k \in 1..Len(result.items) : result.items[k].trendline_type = "support"

\* C23: for every candle and every fitted line, lines whose price at the
\* candle's index is zero or negative included, a signal with is_touch = true
\* has distance_pct <= 0.5.
C23_TouchMeansWithinHalfPercent ==
  (IsFindOnLineCall \/ IsFindAllCall) =>
    \A k \in 1..Len(result.items) :
      result.items[k].is_touch => FLe(result.items[k].distance_pct, Float(1, 2))

\* The price of the candidate point at working-frame index idx.
CandidatePriceAt(points, idx) ==
  LET k == CHOOSE m \in 1..Len(points) : points[m][1] = idx
  IN points[k][2]

\* The value of the fitted line at bar b of the source series: the line is
\* fitted over the bars from start_idx on, counted from 0.
LineValueAtSourceBar(line, start_idx, b) ==
  FAdd(FMul(line.slope, I(b - start_idx)), line.intercept)

\* C24: for every series length, shorter or longer than lookback, the line
\* returned by fit_upper_envelope / fit_lower_envelope is in the bar-index
\* frame of its start_index and end_index: get_price_at_index(start_index) is
\* the price of the first defining candidate point, and
\* get_price_at_index(len(df) - 1) is the line's value at the last bar of the
\* source series.
C24_LineIsInTheFrameOfItsIndices ==
  (IsEnvelopeCall /\ result # None) =>
    /\ get_price_at_index(result, result.start_index)
         = I(CandidatePriceAt(CandidatesOfCall,
                              result.start_index - start_idx_of(df, call.lookback)))
    /\ get_price_at_index(result, Len(df) - 1)
         = LineValueAtSourceBar(result, start_idx_of(df, call.lookback), Len(df) - 1)

(***************************************************************************)
(* One candidate point against one candidate line: SpecTouch.              *)
(***************************************************************************)
MaxPointIndex == 2

\* Prices about 10 and about 1000, some within 1.5 percent of each other.
PointPrices == {8, 10, 985, 990, 1000, 1010, 1015, 1016}

LineSlopes == {I(0), I(165), I(-5), Float(-1015, 2)}

LineIntercepts == {I(-155), I(0), I(10), I(1000), I(1015)}

InitTouch ==
  /\ df = <<>>
  /\ TALIB_AVAILABLE = FALSE
  /\ talib_out = <<>>
  /\ call = Idle
  /\ result = None
  /\ BotNotStarted

\* One pass of the loop `for idx, price in unique_highs` of
\* fit_upper_envelope: what the point adds to touches and violations.
UpperPointCount ==
  /\ call = Idle
  /\ \E idx \in 0..MaxPointIndex, price \in PointPrices, slope \in LineSlopes,
        intercept \in LineIntercepts :
       /\ call' = [fn |-> "upper_point_count", idx |-> idx, price |-> price,
                   slope |-> slope, intercept |-> intercept]
       /\ result' = [kind |-> "counts",
                     added |-> upper_point_count(price,
                                                 FAdd(FMul(slope, I(idx)), intercept))]
  /\ UNCHANGED <<df, TALIB_AVAILABLE, talib_out, bot>>

\* One pass of the loop `for idx, price in unique_lows` of
\* fit_lower_envelope.
LowerPointCount ==
  /\ call = Idle
  /\ \E idx \in 0..MaxPointIndex, price \in PointPrices, slope \in LineSlopes,
        intercept \in LineIntercepts :
       /\ call' = [fn |-> "lower_point_count", idx |-> idx, price |-> price,
                   slope |-> slope, intercept |-> intercept]
       /\ result' = [kind |-> "counts",
                     added |-> lower_point_count(price,
                                                 FAdd(FMul(slope, I(idx)), intercept))]
  /\ UNCHANGED <<df, TALIB_AVAILABLE, talib_out, bot>>

NextTouch ==
  \/ UpperPointCount
  \/ LowerPointCount

SpecTouch == InitTouch /\ [][NextTouch]_vars

(***************************************************************************)
(* Claims about the touch count, checked under SpecTouch.                  *)
(***************************************************************************)
\* What a point adds by the claim, <<touches, violations>>: nothing where
\* the line price is not positive; else a touch within 1.5 percent of the
\* line, and a violation beyond it on the side the fit forbids.  The line
\* price is the fraction n / d with d > 0.
AddedPerClaim(price, n, d, is_upper) ==
  IF n <= 0 THEN <<0, 0>>
  ELSE IF 200 * Abs(price * d - n) <= 3 * n THEN <<1, 0>>
  ELSE IF is_upper /\ price * d > n THEN <<0, 1>>
  ELSE IF ~is_upper /\ price * d < n THEN <<0, 1>>
  ELSE <<0, 0>>

LinePriceOfPoint == FAdd(FMul(call.slope, I(call.idx)), call.intercept)

\* C25: fit_upper_envelope and fit_lower_envelope treat a candidate point at
\* which the line's price is zero or negative alike: it counts neither as a
\* touch nor as a violation in either fit, and the fits differ only in the
\* side of the line that counts as a violation.
C25_NonPositiveLinePriceCountsNothing ==
  (call.fn \in {"upper_point_count", "lower_point_count"}) =>
    result.added = AddedPerClaim(call.price, LinePriceOfPoint.n, LinePriceOfPoint.d,
                                 call.fn = "upper_point_count")

(***************************************************************************)
(* scanner_service.py                                                      *)
(***************************************************************************)
\* The HammerSignal of scanner_service.py, without its date string.
ServiceHammerSignal(symbol, line_type, line_price, price, distance, days_ago, hammer_type) ==
  [symbol |-> symbol, line_type |-> line_type, line_price |-> line_price,
   price |-> price, distance |-> distance, days_ago |-> days_ago,
   hammer_type |-> hammer_type]

\* The line price of a pattern at finviz_bar as scan_for_hammers computes it;
\* the division by x2 - x1 of two integers raises ZeroDivisionError when the
\* pattern is vertical.
inline_line_price(pattern, finviz_bar, min_price, max_price) ==
  LET Convert(line_y) == [kind |-> "float",
                          value |-> y_to_price(line_y, min_price, max_price, DefaultHeight)]
      Interpolate(line_slope) ==
        Convert(FAdd(I(pattern.y1), FMul(line_slope, I(finviz_bar - pattern.x1))))
  IN IF pattern.x2 - pattern.x1 = 0 THEN Raise("ZeroDivisionError")
     ELSE Interpolate(FDiv(I(pattern.y2 - pattern.y1), I(pattern.x2 - pattern.x1)))

\* The check of one line on one day: the exception raised, or the signals to
\* append (none or one).
line_check(symbol, line_type, pattern, finviz, day_price, day_offset, hammer_type, tolerance) ==
  LET Emit(line_price, dist) ==
        IF FLe(FAbs(dist), tolerance)
        THEN List(<<ServiceHammerSignal(symbol, line_type, line_price, day_price, dist,
                                        day_offset, hammer_type)>>)
        ELSE List(<<>>)
      Measure(line_price) ==
        Emit(line_price, FMul(FDiv(FSub(I(day_price), line_price), line_price), I(100)))
      Check(priced) == IF priced.kind = "raise" THEN priced ELSE Measure(priced.value)
  IN IF pattern = None THEN List(<<>>)
     ELSE Check(inline_line_price(pattern, 500 - day_offset, finviz.min_price,
                                  finviz.max_price))

\* acc: the signals of the symbol so far and whether an exception has ended
\* its scan.
RECURSIVE day_loop(_, _, _, _, _, _, _, _)
day_loop(symbol, finviz, d, hammers, day_offset, lookback_days, tolerance, acc) ==
  IF day_offset >= lookback_days \/ acc.raised THEN acc
  ELSE
    LET bar_idx == Len(d) - 1 - day_offset
        OnDay(h) == h.index = bar_idx
        Upper(blue, checked) ==
          IF checked.kind = "raise" THEN [acc EXCEPT !.blue = blue, !.raised = TRUE]
          ELSE [acc EXCEPT !.blue = blue, !.upper = acc.upper \o checked.items]
        Lower(day_hammers, checked) ==
          IF checked.kind = "raise" THEN [acc EXCEPT !.raised = TRUE]
          ELSE Upper(acc.blue \o checked.items,
                     line_check(symbol, "upper", finviz.upper, finviz,
                                d[bar_idx + 1].High, day_offset,
                                day_hammers[1].pattern_type, tolerance))
        Day(day_hammers) ==
          IF day_hammers = <<>> THEN acc
          ELSE Lower(day_hammers,
                     line_check(symbol, "blue", finviz.lower, finviz,
                                d[bar_idx + 1].Low, day_offset,
                                day_hammers[1].pattern_type, tolerance))
    IN day_loop(symbol, finviz, d, hammers, day_offset + 1, lookback_days, tolerance,
                IF bar_idx < 0 THEN acc ELSE Day(SelectSeq(hammers, OnDay)))

\* The body of the loop over the symbols.  fetched: what fetch_finviz_patterns
\* returns for the symbol and what fetch_stock_data returns or raises.
symbol_scan(symbol, fetched, lookback_days, tolerance) ==
  LET nothing == [blue |-> <<>>, upper |-> <<>>, raised |-> FALSE]
  IN IF fetched.finviz = None THEN nothing
     ELSE IF fetched.data.kind = "raise" THEN [nothing EXCEPT !.raised = TRUE]
     ELSE IF Len(fetched.data.items) < 10 THEN nothing
     ELSE day_loop(symbol, fetched.finviz, fetched.data.items,
                   detect_hammers(fetched.data.items), 0, lookback_days, tolerance,
                   nothing)

RECURSIVE symbols_loop(_, _, _, _, _)
symbols_loop(symbols, k, world, lookback_days, tolerance) ==
  IF k > Len(symbols) THEN [blue |-> <<>>, upper |-> <<>>]
  ELSE LET Join(one, rest) == [blue |-> one.blue \o rest.blue,
                               upper |-> one.upper \o rest.upper]
       IN Join(symbol_scan(symbols[k], world[symbols[k]], lookback_days, tolerance),
               symbols_loop(symbols, k + 1, world, lookback_days, tolerance))

\* Order of the ticker strings.
SymbolRank(symbol) == IF symbol = "AAA" THEN 1 ELSE 2

\* key=lambda x: (x.days_ago, x.symbol)
key_before(a, b) ==
  \/ a.days_ago < b.days_ago
  \/ a.days_ago = b.days_ago /\ SymbolRank(a.symbol) < SymbolRank(b.symbol)

RECURSIVE sorted_signals(_)
\* sorted(): stable, ascending by key.
sorted_signals(signals) ==
  IF signals = <<>> THEN <<>>
  ELSE LET Before(first) ==
             LET Less(s) == key_before(s, first)
                 NotLess(s) == ~key_before(s, first)
             IN sorted_signals(SelectSeq(Tail(signals), Less))
                  \o <<first>> \o sorted_signals(SelectSeq(Tail(signals), NotLess))
       IN Before(Head(signals))

scan_for_hammers(symbols, world, lookback_days, tolerance) ==
  LET Sort(results) == [kind |-> "dict", blue |-> sorted_signals(results.blue),
                        upper |-> sorted_signals(results.upper)]
  IN Sort(symbols_loop(symbols, 1, world, lookback_days, tolerance))

(***************************************************************************)
(* A scan of vendor pattern lines for hammers: SpecScan.                   *)
(***************************************************************************)
MaxLookbackDays == 2

\* A hammer with Low 100 and High 111, a full-body bar, and a hammer far
\* above the lines.
ScanBars == {Bar(110, 111, 100, 111), Bar(100, 110, 100, 110), Bar(210, 211, 200, 211)}

\* Eight full-body bars and two bars of the menu, and a series of fewer
\* than 10 bars.
ScanSeries ==
  {[k \in 1..8 |-> Bar(100, 110, 100, 110)] \o tail : tail \in [1..2 -> ScanBars]}
  \cup {<<Bar(110, 111, 100, 111), Bar(110, 111, 100, 111)>>}

\* On a chart from 50 to 150: lower lines flat at 100, vertical, and rising
\* to 100 at bar 500; upper lines flat at 111, vertical, and rising to 111.
LowerPatterns ==
  {FinvizPattern(3, 1, 1, 2, 0, 200, 500, 200), FinvizPattern(3, 1, 1, 2, 500, 200, 500, 100),
   FinvizPattern(3, 1, 1, 2, 0, 400, 500, 200)}

UpperPatterns ==
  {FinvizPattern(2, 1, 1, 2, 0, 156, 500, 156), FinvizPattern(2, 1, 1, 2, 500, 156, 500, 100),
   FinvizPattern(2, 1, 1, 2, 0, 400, 500, 156)}

FinvizResults(symbol) ==
  {None} \cup {FinvizTrendlines(symbol, I(50), I(150), upper, lower) :
                 upper \in {None} \cup UpperPatterns, lower \in {None} \cup LowerPatterns}

\* The second symbol: a flat lower line at 100 and a hammer on it on each of
\* the last two days.
SecondSymbol ==
  [finviz |-> FinvizTrendlines("BBB", I(50), I(150), None,
                               FinvizPattern(3, 1, 1, 2, 0, 200, 500, 200)),
   data |-> List([k \in 1..8 |-> Bar(100, 110, 100, 110)]
                 \o <<Bar(110, 111, 100, 111), Bar(110, 111, 100, 111)>>)]

SymbolLists == {<<"AAA">>, <<"AAA", "BBB">>, <<"BBB", "AAA">>}

ScanTolerances == {I(2), I(0)}

InitScan ==
  /\ df \in ScanSeries
  /\ TALIB_AVAILABLE = FALSE
  /\ talib_out = <<>>
  /\ call = Idle
  /\ result = None
  /\ BotNotStarted

\* scan_for_hammers(symbols, lookback_days=..., tolerance=...); df is the
\* series of the symbol AAA.
ScanForHammers ==
  /\ call = Idle
  /\ \E symbols \in SymbolLists, finviz \in FinvizResults("AAA"),
        data \in {List(df), Raise("ValueError")},
        lookback_days \in 1..MaxLookbackDays, tolerance \in ScanTolerances :
       /\ call' = [fn |-> "scan_for_hammers", symbols |-> symbols,
                   world |-> [s \in {"AAA", "BBB"} |->
                                IF s = "AAA" THEN [finviz |-> finviz, data |-> data]
                                ELSE SecondSymbol],
                   lookback_days |-> lookback_days, tolerance |-> tolerance]
       /\ result' = scan_for_hammers(symbols,
                                     [s \in {"AAA", "BBB"} |->
                                        IF s = "AAA" THEN [finviz |-> finviz, data |-> data]
                                        ELSE SecondSymbol],
                                     lookback_days, tolerance)
  /\ UNCHANGED <<df, TALIB_AVAILABLE, talib_out, bot>>

NextScan == ScanForHammers

SpecScan == InitScan /\ [][NextScan]_vars

(***************************************************************************)
(* Claims about the scan, checked under SpecScan.                          *)
(***************************************************************************)
IsScanCall == call.fn = "scan_for_hammers"

\* The symbols of the call whose pattern data and series (of at least 10
\* bars) were fetched.
ScannedSymbols ==
  {s \in {call.symbols[k] : k \in 1..Len(call.symbols)} :
     /\ call.world[s].finviz # None
     /\ call.world[s].data.kind = "list"
     /\ Len(call.world[s].data.items) >= 10}

\* The days of the call on which the symbol has a hammer.
HammerDays(s) ==
  {day \in 0..(call.lookback_days - 1) :
     \E k \in 1..Len(detect_hammers(call.world[s].data.items)) :
       detect_hammers(call.world[s].data.items)[k].index
         = Len(call.world[s].data.items) - 1 - day}

FirstHammerTypeAt(hammers, bar_idx) ==
  LET k == CHOOSE m \in 1..Len(hammers) :
             /\ hammers[m].index = bar_idx
             /\ \A j \in 1..(m - 1) : hammers[j].index # bar_idx
  IN hammers[k].pattern_type

\* The signal of a symbol, day and line with the line price of
\* get_trendline_price.
SignalPerClaim(s, day, line_type, pattern, day_price) ==
  LET Build(line_price) ==
        ServiceHammerSignal(s, line_type, line_price, day_price,
                            FMul(FDiv(FSub(I(day_price), line_price), line_price), I(100)),
                            day,
                            FirstHammerTypeAt(detect_hammers(call.world[s].data.items),
                                              Len(call.world[s].data.items) - 1 - day))
  IN Build(get_trendline_price(pattern, 500 - day, call.world[s].finviz.min_price,
                               call.world[s].finviz.max_price))

BarOfDay(s, day) == call.world[s].data.items[Len(call.world[s].data.items) - day]

SignalsPerClaim(line_type) ==
  LET PatternOf(s) == IF line_type = "blue" THEN call.world[s].finviz.lower
                      ELSE call.world[s].finviz.upper
      PriceOf(s, day) == IF line_type = "blue" THEN BarOfDay(s, day).Low
                         ELSE BarOfDay(s, day).High
      Candidates == {<<s, day>> \in ScannedSymbols \X (0..(call.lookback_days - 1)) :
                       day \in HammerDays(s) /\ PatternOf(s) # None}
      All == {SignalPerClaim(c[1], c[2], line_type, PatternOf(c[1]), PriceOf(c[1], c[2])) :
                c \in Candidates}
  IN {sig \in All : FLe(FAbs(sig.distance), call.tolerance)}

SetOf(seq) == {seq[k] : k \in 1..Len(seq)}

\* C26: for every vendor pattern line and every day offset the line price
\* scan_for_hammers computes inline equals get_trendline_price(pattern,
\* 500 - day_offset, min_price, max_price), vertical patterns (x1 = x2)
\* included: no error occurs and no signal of the symbol is lost, so the scan
\* returns the signals that get_trendline_price gives.
C26_InlineLinePriceIsGetTrendlinePrice ==
  IsScanCall =>
    /\ SetOf(result.blue) = SignalsPerClaim("blue")
    /\ SetOf(result.upper) = SignalsPerClaim("upper")

(***************************************************************************)
(* signal_generator.py: get_latest_signal, and SpecLatest.                 *)
(***************************************************************************)
RECURSIVE max_by_index_last(_, _, _)
max_by_index_last(signals, k, best) ==
  IF k > Len(signals) THEN best
  ELSE max_by_index_last(signals, k + 1,
                         IF signals[k].hammer.index >= best.hammer.index
                         THEN signals[k] ELSE best)

RECURSIVE max_by_index(_, _, _)
\* max(recent_signals, key=lambda s: s.hammer.index) from position k on: the
\* first signal of the greatest index.
max_by_index(signals, k, best) ==
  IF k > Len(signals) THEN best
  ELSE max_by_index(signals, k + 1,
                    IF signals[k].hammer.index > best.hammer.index
                    THEN signals[k] ELSE best)

get_latest_signal(d, lookback, tolerance_pct, recent_bars) ==
  LET Latest(recent_signals) ==
        IF recent_signals = <<>> THEN None
        ELSE max_by_index(recent_signals, 2, recent_signals[1])
      Recent(s) == s.hammer.index >= Len(d) - recent_bars
  IN Latest(SelectSeq(find_all_trendline_hammer_signals(d, lookback, tolerance_pct),
                      Recent))

\* recent_bars: the last bar, the last two, and the default of 5.
RecentBars == {1, 2, 5}

\* get_latest_signal(df, symbol, lookback, recent_bars=recent_bars), with the
\* default tolerance_pct of 2.0
GetLatestSignal ==
  /\ call = Idle
  /\ \E lookback \in 1..MaxLookback, recent_bars \in RecentBars :
       /\ call' = [fn |-> "get_latest_signal", lookback |-> lookback,
                   tolerance_pct |-> I(2), recent_bars |-> recent_bars]
       /\ result' = get_latest_signal(df, lookback, I(2), recent_bars)
  /\ UNCHANGED <<df, TALIB_AVAILABLE, talib_out, bot>>

NextLatest == GetLatestSignal

SpecLatest == Init /\ [][NextLatest]_vars

(***************************************************************************)
(* Claims about the latest signal, checked under SpecLatest.               *)
(***************************************************************************)
IsLatestCall == call.fn = "get_latest_signal"

AllSignalsOfCall == find_all_trendline_hammer_signals(df, call.lookback, call.tolerance_pct)

\* The positions of the emitted signals among the last recent_bars bars.
RecentOf(all) ==
  {k \in 1..Len(all) : all[k].hammer.index >= Len(df) - call.recent_bars}

LatestAmong(all, recent) ==
  IF recent = {} THEN result = None
  ELSE /\ result # None
       /\ \E k \in recent : result = all[k]
       /\ \A j \in recent : all[j].hammer.index <= result.hammer.index
       /\ (\E j \in recent : /\ all[j].hammer.index = result.hammer.index
                             /\ all[j].trendline_type = "resistance")
            => result.trendline_type = "resistance"

LatestPerClaim(all) == LatestAmong(all, RecentOf(all))

\* C27: get_latest_signal returns None iff no emitted signal has candle index
\* >= len(df) - recent_bars; otherwise a signal of maximal candle index among
\* those, and the resistance one when the most recent candle gave both a
\* resistance and a support signal.
C27_LatestSignal ==
  IsLatestCall => LatestPerClaim(AllSignalsOfCall)

\* The most recent candle with a signal gave one on each line, and an older
\* candle gave signals too: the resistance signal of the recent candle is
\* returned.
C27_Witness ==
  /\ IsLatestCall
  /\ result # None
  /\ result.trendline_type = "resistance"
  /\ LET Both(all) ==
           /\ \E j \in RecentOf(all) :
                /\ all[j].hammer.index = result.hammer.index
                /\ all[j].trendline_type = "support"
           /\ \E j \in RecentOf(all) : all[j].hammer.index < result.hammer.index
     IN Both(AllSignalsOfCall)

(***************************************************************************)
(* Claims about the strength of a touch, checked under Spec.               *)
(***************************************************************************)
\* C28: on the production path, where a line is fitted through exactly 2
\* pivots, every emitted signal with is_touch = true has strength STRONG,
\* whatever the wick ratio of its candle.
C28_TouchOnTwoPivotLineIsStrong ==
  (IsFindOnLineCall \/ IsFindAllCall) =>
    \A k \in 1..Len(result.items) :
      /\ Len(result.items[k].trendline.pivot_points) = 2
      /\ result.items[k].is_touch => result.items[k].strength = "STRONG"

\* A touch by a candle whose lower wick is no more than 3 times its body,
\* rated STRONG.
C28_Witness ==
  /\ IsFindOnLineCall
  /\ \E k \in 1..Len(result.items) :
       /\ result.items[k].is_touch
       /\ result.items[k].strength = "STRONG"
       /\ result.items[k].hammer.lower_wick <= 3 * result.items[k].hammer.body_size

(***************************************************************************)
(* The candidate points of the envelope fits: SpecCandidates.              *)
(***************************************************************************)
\* 30 bars flat at 100 with High 105 and Low 95 at index a, and High 110 and
\* Low 90 at index b.
SpikeDipSeries(a, b) ==
  [k \in 1..30 |-> IF k - 1 = a THEN Bar(100, 105, 95, 100)
                   ELSE IF k - 1 = b THEN Bar(100, 110, 90, 100)
                   ELSE Bar(100, 100, 100, 100)]

\* A lookback shorter than the series, and the default of 100.
CandidateLookbacks == {20, 100}

InitCandidates ==
  /\ df \in {SpikeDipSeries(a, b) : a \in 0..MaxFirstSpike, b \in (MaxFirstSpike + 1)..29}
  /\ TALIB_AVAILABLE = FALSE
  /\ talib_out = <<>>
  /\ call = Idle
  /\ result = None
  /\ BotNotStarted

\* fit_upper_envelope up to `if len(unique_highs) < 2`: the candidate points.
CollectUniqueHighs ==
  /\ call = Idle
  /\ \E lookback \in CandidateLookbacks :
       /\ call' = [fn |-> "unique_highs", lookback |-> lookback]
       /\ result' = List(unique_highs_of(df, lookback))
  /\ UNCHANGED <<df, TALIB_AVAILABLE, talib_out, bot>>

\* fit_lower_envelope up to `if len(unique_lows) < 2`.
CollectUniqueLows ==
  /\ call = Idle
  /\ \E lookback \in CandidateLookbacks :
       /\ call' = [fn |-> "unique_lows", lookback |-> lookback]
       /\ result' = List(unique_lows_of(df, lookback))
  /\ UNCHANGED <<df, TALIB_AVAILABLE, talib_out, bot>>

NextCandidates ==
  \/ CollectUniqueHighs
  \/ CollectUniqueLows

SpecCandidates == InitCandidates /\ [][NextCandidates]_vars

(***************************************************************************)
(* Claims about the candidate points, checked under SpecCandidates.        *)
(***************************************************************************)
IsCandidatesCall == call.fn \in {"unique_highs", "unique_lows"}

\* The points the call finds with one window.
PointsOfWindow(window) ==
  IF call.fn = "unique_highs"
  THEN find_significant_highs(df_work_of(df, call.lookback), window)
  ELSE find_significant_lows(df_work_of(df, call.lookback), window)

\* C30: the de-duplicated union of the candidate points collected with the
\* windows 5, 10 and 15 has strictly increasing bar indices and is the list of
\* the points found with window 5 alone: every point of window 10 or 15 is a
\* point of window 5 with the same price.
C30_CandidatesAreThoseOfWindowFive ==
  IsCandidatesCall =>
    /\ \A k \in 1..(Len(result.items) - 1) : result.items[k][1] < result.items[k + 1][1]
    /\ result.items = PointsOfWindow(5)
    /\ SetOf(PointsOfWindow(10)) \subseteq SetOf(PointsOfWindow(5))
    /\ SetOf(PointsOfWindow(15)) \subseteq SetOf(PointsOfWindow(10))

\* Three windows that each find another set of points, the wider the fewer.
C30_Witness ==
  /\ IsCandidatesCall
  /\ Len(PointsOfWindow(15)) >= 2
  /\ Len(PointsOfWindow(15)) < Len(PointsOfWindow(10))
  /\ Len(PointsOfWindow(10)) < Len(PointsOfWindow(5))
  /\ Len(result.items) = Len(PointsOfWindow(5))

(***************************************************************************)
(* data_fetcher.py and scanner.py                                          *)
(***************************************************************************)
Str(value) == [kind |-> "str", value |-> value]

Number(value) == [kind |-> "float", value |-> value]

\* history[symbol] is the frame ticker.history returns; an empty frame
\* raises ValueError(f"No data found for symbol: {symbol}").
fetch_stock_data(symbol, history) ==
  IF history[symbol] = <<>>
  THEN [kind |-> "raise", exc |-> "ValueError",
        message |-> "No data found for symbol: " \o symbol]
  ELSE List(history[symbol])

IsResistance(s) == s.trendline_type = "resistance"

IsSupport(s) == s.trendline_type = "support"

ScanResult(symbol, status, error, data, current_price, resistance, support, all_signals, latest_signal) ==
  [symbol |-> symbol, status |-> status, error |-> error, data |-> data,
   resistance_trendline |-> resistance, support_trendline |-> support,
   all_signals |-> all_signals,
   resistance_signals |-> SelectSeq(all_signals, IsResistance),
   support_signals |-> SelectSeq(all_signals, IsSupport),
   latest_signal |-> latest_signal, current_price |-> current_price]

\* TrendlineScanner.scan_symbol: the result dictionary starts as a success
\* with empty fields, the try block fills it field by field, and an
\* exception leaves what was filled and sets status and error.
scan_symbol(symbol, history, pivot_lookback, tolerance_pct) ==
  LET Signals(d, resistance, support, all_signals) ==
        ScanResult(symbol, "success", None, List(d), Number(d[Len(d)].Close),
                   resistance, support, all_signals,
                   get_latest_signal(d, pivot_lookback, tolerance_pct, 5))
      Lines(d, resistance, support) ==
        IF resistance.kind = "raise" \/ support.kind = "raise"
        THEN ScanResult(symbol, "error",
                        Str("Need at least 2 points for linear regression"),
                        List(d), Number(d[Len(d)].Close), None, None, <<>>, None)
        ELSE Signals(d, resistance, support,
                     find_all_trendline_hammer_signals(d, pivot_lookback, tolerance_pct))
      Fetched(fetched) ==
        IF fetched.kind = "raise"
        THEN ScanResult(symbol, "error", Str(fetched.message), None, None,
                        None, None, <<>>, None)
        ELSE Lines(fetched.items,
                   calculate_resistance_trendline(fetched.items, pivot_lookback, 2,
                                                  DefaultExtendBars),
                   calculate_support_trendline(fetched.items, pivot_lookback, 2,
                                               DefaultExtendBars))
  IN Fetched(fetch_stock_data(symbol, history))

RECURSIVE scan_loop_stopping(_, _, _, _, _, _)
scan_loop_stopping(symbols, i, history, pivot_lookback, tolerance_pct, results) ==
  IF i >= Len(symbols) THEN results
  ELSE IF scan_symbol(symbols[i + 1], history, pivot_lookback, tolerance_pct).status = "error"
  THEN results
  ELSE scan_loop_stopping(symbols, i + 1, history, pivot_lookback, tolerance_pct,
                          Append(results, scan_symbol(symbols[i + 1], history,
                                                      pivot_lookback, tolerance_pct)))

scan_multiple_stopping(symbols, history, pivot_lookback, tolerance_pct) ==
  List(scan_loop_stopping(symbols, 0, history, pivot_lookback, tolerance_pct, <<>>))

RECURSIVE scan_loop(_, _, _, _, _, _)
\* for i, symbol in enumerate(symbols): results.append(self.scan_symbol(symbol))
scan_loop(symbols, i, history, pivot_lookback, tolerance_pct, results) ==
  IF i >= Len(symbols) THEN results
  ELSE scan_loop(symbols, i + 1, history, pivot_lookback, tolerance_pct,
                 Append(results, scan_symbol(symbols[i + 1], history,
                                             pivot_lookback, tolerance_pct)))

\* TrendlineScanner.scan_multiple
scan_multiple(symbols, history, pivot_lookback, tolerance_pct) ==
  List(scan_loop(symbols, 0, history, pivot_lookback, tolerance_pct, <<>>))

(***************************************************************************)
(* A batch scan: SpecBatch.                                                *)
(***************************************************************************)
MaxBatch == 2

MaxBatchLen == 3

\* A hammer topping at 100, a hammer topping at 102, and a low-priced bar.
BatchBars == {Bar(99, 100, 97, 100), Bar(102, 102, 99, 101), Bar(2, 2, 1, 2)}

Tickers == {"AAA", "BBB", "ZZZ"}

RECURSIVE Reversed(_)
Reversed(s) == IF s = <<>> THEN <<>> ELSE Append(Reversed(Tail(s)), Head(s))

\* What the data vendor returns: df for AAA, the same bars in reverse order
\* for BBB, and an empty frame for the unknown ticker ZZZ.
History(d) ==
  [s \in Tickers |-> IF s = "AAA" THEN d ELSE IF s = "BBB" THEN Reversed(d) ELSE <<>>]

InitBatch ==
  /\ df \in SeriesUpTo(BatchBars, MaxBatchLen)
  /\ TALIB_AVAILABLE \in BOOLEAN
  /\ talib_out \in (IF TALIB_AVAILABLE THEN VendorOutputs(Len(df)) ELSE {<<>>})
  /\ call = Idle
  /\ result = None
  /\ BotNotStarted

\* TrendlineScanner(pivot_lookback=pivot_lookback).scan_multiple(symbols),
\* with the default tolerance_pct of 2.0
ScanMultiple ==
  /\ call = Idle
  /\ \E symbols \in SeriesUpTo(Tickers, MaxBatch), pivot_lookback \in 1..MaxLookback :
       /\ call' = [fn |-> "scan_multiple", symbols |-> symbols, history |-> History(df),
                   pivot_lookback |-> pivot_lookback, tolerance_pct |-> I(2)]
       /\ result' = scan_multiple(symbols, History(df), pivot_lookback, I(2))
  /\ UNCHANGED <<df, TALIB_AVAILABLE, talib_out, bot>>

NextBatch == ScanMultiple

SpecBatch == InitBatch /\ [][NextBatch]_vars

(***************************************************************************)
(* Claims about the batch scan, checked under SpecBatch.                   *)
(***************************************************************************)
IsBatchCall == call.fn = "scan_multiple"

\* The symbols of the call for which the vendor has no data.
FailingSymbols ==
  {s \in {call.symbols[k] : k \in 1..Len(call.symbols)} : call.history[s] = <<>>}

NotSymbol(f, symbols) ==
  LET Keep(s) == s # f IN SelectSeq(symbols, Keep)

NotOfSymbol(f, results) ==
  LET Keep(r) == r.symbol # f IN SelectSeq(results, Keep)

\* C21: scan_multiple returns a list and never raises; the list has one
\* result per input symbol, in input order; a symbol whose fetch finds no
\* data has status 'error' and a non-empty error text, every other symbol is
\* a success without error text; and the results of the other symbols are
\* those of the batch without the failing symbol.
C21_BatchIsolatesFailures ==
  IsBatchCall =>
    /\ result.kind = "list"
    /\ Len(result.items) = Len(call.symbols)
    /\ \A k \in 1..Len(call.symbols) :
         /\ result.items[k].symbol = call.symbols[k]
         /\ IF call.symbols[k] \in FailingSymbols
            THEN /\ result.items[k].status = "error"
                 /\ result.items[k].error.kind = "str"
                 /\ result.items[k].error.value # ""
            ELSE /\ result.items[k].status = "success"
                 /\ result.items[k].error = None
    /\ \A f \in FailingSymbols :
         scan_multiple(NotSymbol(f, call.symbols), call.history, call.pivot_lookback,
                       call.tolerance_pct).items
           = NotOfSymbol(f, result.items)

\* A batch whose first symbol fails and whose later symbol succeeds with
\* signals and a latest signal.
C21_Witness ==
  /\ IsBatchCall
  /\ Len(call.symbols) >= 2
  /\ call.symbols[1] \in FailingSymbols
  /\ \E k \in 2..Len(call.symbols) :
       /\ result.items[k].status = "success"
       /\ result.items[k].all_signals # <<>>
       /\ result.items[k].latest_signal # None

(***************************************************************************)
(* telegram_bot.py                                                         *)
(***************************************************************************)
ChatId(value) == [kind |-> "int", value |-> value]

\* The chat a chat_id names: the API takes the id as an integer or as its
\* decimal string.
ChatOf(chat_id) ==
  IF chat_id.kind = "str" THEN (("1" :> 1) @@ ("9" :> 9))[chat_id.value]
  ELSE chat_id.value

\* The defaults get_user_settings stores for a user it has not seen.
DefaultSettings ==
  [tolerance |-> I(2),
   patterns |-> <<"wedgeup", "wedgedown", "channelup", "channeldown">>,
   alerts_enabled |-> TRUE,
   lookback_days |-> 5,
   market_alerts |-> TRUE]

\* get_user_settings(user_id): the two globals after the call.  The
\* returned dictionary is globals.user_settings[user_id] of the result.
get_user_settings(user_id, globals) ==
  [registered_users |-> globals.registered_users \cup {user_id},
   user_settings |-> IF user_id \in DOMAIN globals.user_settings
                     THEN globals.user_settings
                     ELSE globals.user_settings @@ (user_id :> DefaultSettings)]

\* bot.send_message(chat_id=...): the call and whether it went through (an
\* exception is logged and the loop goes on).
Message(chat_id, blocked) ==
  [chat_id |-> chat_id, delivered |-> ChatOf(chat_id) \notin blocked]

\* `if ADMIN_CHAT_ID:` is false for an unset and for an empty variable.
admin_messages(admin, blocked) ==
  IF admin = None \/ admin.value = "" THEN <<>>
  ELSE <<Message(admin, blocked)>>

RECURSIVE user_loop(_, _, _, _, _, _)
\* for user_id in registered_users: order is the order in which the set is
\* iterated.
user_loop(order, i, globals, check_setting, blocked, messages) ==
  LET Checked(after) ==
        IF ~after.user_settings[order[i]][check_setting.value]
        THEN user_loop(order, i + 1, after, check_setting, blocked, messages)
        ELSE user_loop(order, i + 1, after, check_setting, blocked,
                       Append(messages, Message(ChatId(order[i]), blocked)))
  IN IF i > Len(order) THEN [globals |-> globals, sent |-> messages]
     ELSE IF check_setting = None
     THEN user_loop(order, i + 1, globals, check_setting, blocked,
                    Append(messages, Message(ChatId(order[i]), blocked)))
     ELSE Checked(get_user_settings(order[i], globals))

\* send_to_users(context, message, check_setting): the messages sent, the
\* admin's first, and the globals afterwards.
send_to_users(order, globals, admin, check_setting, blocked) ==
  user_loop(order, 1, globals, check_setting, blocked,
            admin_messages(admin, blocked))

\* float(data.replace('set_tolerance_', ''))
tolerance_of == ("set_tolerance_1.0" :> I(1))

\* int(data.replace('set_lookback_', ''))
lookback_of == ("set_lookback_1" :> 1)

\* data.replace('toggle_pattern_', '')
pattern_of == ("toggle_pattern_horizontal" :> "horizontal")

\* settings['patterns'].remove(pattern) if it is in the list, else append.
toggle_pattern(patterns, pattern) ==
  LET Other(p) == p # pattern
  IN IF \E k \in 1..Len(patterns) : patterns[k] = pattern
     THEN SelectSeq(patterns, Other)
     ELSE Append(patterns, pattern)

\* button_callback: the user's settings after the button `data`.
button_settings(settings, data) ==
  IF data \in DOMAIN tolerance_of THEN [settings EXCEPT !.tolerance = tolerance_of[data]]
  ELSE IF data \in DOMAIN lookback_of
  THEN [settings EXCEPT !.lookback_days = lookback_of[data]]
  ELSE IF data \in DOMAIN pattern_of
  THEN [settings EXCEPT !.patterns = toggle_pattern(settings.patterns, pattern_of[data])]
  ELSE IF data = "toggle_alerts"
  THEN [settings EXCEPT !.alerts_enabled = ~settings.alerts_enabled]
  ELSE IF data = "toggle_market_alerts"
  THEN [settings EXCEPT !.market_alerts = ~settings.market_alerts]
  ELSE settings

(***************************************************************************)
(* The running bot: SpecBot.                                               *)
(***************************************************************************)
\* Telegram users; a private chat has the id of its user.
Users == {1, 2}

\* TELEGRAM_ADMIN_CHAT_ID: unset, empty, the chat of user 1, and a chat of
\* nobody who uses the bot.
AdminChatIds == {None, Str(""), Str("1"), Str("9")}

ButtonData ==
  {"settings_tolerance", "set_tolerance_1.0", "set_lookback_1", "toggle_pattern_horizontal",
   "toggle_alerts", "toggle_market_alerts"}

\* Chats whose send_message raises: none, or the chat of user 1.
Blocked == {{}, {1}}

Globals == [registered_users |-> registered_users, user_settings |-> user_settings]

\* The orders in which a set can be iterated.
Orders(S) ==
  {o \in [1..Cardinality(S) -> S] : \A i, j \in 1..Cardinality(S) : o[i] = o[j] => i = j}

InitBot ==
  /\ df = <<>>
  /\ TALIB_AVAILABLE = FALSE
  /\ talib_out = <<>>
  /\ call = Idle
  /\ result = None
  /\ user_settings = <<>>
  /\ registered_users = {}
  /\ ADMIN_CHAT_ID \in AdminChatIds
  /\ sent = <<>>

\* A command handler that only registers the user and replies.
Registers(fn, user_id, after) ==
  /\ call' = [fn |-> fn, user_id |-> user_id]
  /\ registered_users' = after.registered_users
  /\ user_settings' = after.user_settings
  /\ sent' = <<>>
  /\ UNCHANGED <<df, TALIB_AVAILABLE, talib_out, result, ADMIN_CHAT_ID>>

\* /start
Start == \E user_id \in Users : Registers("start", user_id, get_user_settings(user_id, Globals))

\* /help
HelpCommand ==
  \E user_id \in Users : Registers("help_command", user_id, get_user_settings(user_id, Globals))

\* /market reads the clock only.
MarketStatus ==
  /\ \E user_id \in Users : call' = [fn |-> "market_status", user_id |-> user_id]
  /\ sent' = <<>>
  /\ UNCHANGED <<df, TALIB_AVAILABLE, talib_out, result, user_settings, registered_users,
                 ADMIN_CHAT_ID>>

\* /scan
Scan == \E user_id \in Users : Registers("scan", user_id, get_user_settings(user_id, Globals))

\* /quick
QuickScan ==
  \E user_id \in Users : Registers("quick_scan", user_id, get_user_settings(user_id, Globals))

\* /settings
SettingsCmd ==
  \E user_id \in Users : Registers("settings_cmd", user_id, get_user_settings(user_id, Globals))

Toggles(fn, user_id, data, after) ==
  /\ call' = [fn |-> fn, user_id |-> user_id, data |-> data]
  /\ registered_users' = after.registered_users
  /\ user_settings' =
       [after.user_settings EXCEPT ![user_id] = button_settings(@, data)]
  /\ sent' = <<>>
  /\ UNCHANGED <<df, TALIB_AVAILABLE, talib_out, result, ADMIN_CHAT_ID>>

\* /alerts
Alerts ==
  \E user_id \in Users :
    Toggles("alerts", user_id, "toggle_alerts", get_user_settings(user_id, Globals))

\* A press of an inline button.
ButtonCallback ==
  \E user_id \in Users, data \in ButtonData :
    Toggles("button_callback", user_id, data, get_user_settings(user_id, Globals))

Sends(fn, check_setting, outcome) ==
  /\ call' = [fn |-> fn, check_setting |-> check_setting]
  /\ registered_users' = outcome.globals.registered_users
  /\ user_settings' = outcome.globals.user_settings
  /\ sent' = outcome.sent
  /\ UNCHANGED <<df, TALIB_AVAILABLE, talib_out, result, ADMIN_CHAT_ID>>

Job(fn, check_setting) ==
  \E order \in Orders(registered_users), blocked \in Blocked :
    Sends(fn, check_setting,
          send_to_users(order, Globals, ADMIN_CHAT_ID, check_setting, blocked))

Skips(fn, reason) ==
  /\ call' = [fn |-> fn, skipped |-> reason]
  /\ sent' = <<>>
  /\ UNCHANGED <<df, TALIB_AVAILABLE, talib_out, result, user_settings, registered_users,
                 ADMIN_CHAT_ID>>

MarketOpenWarning == Job("market_open_warning", Str("market_alerts"))

MarketOpenNotification == Job("market_open_notification", Str("market_alerts"))

MarketCloseWarning == Job("market_close_warning", Str("market_alerts"))

MarketCloseNotification == Job("market_close_notification", Str("market_alerts"))

\* The hourly scan: nothing is sent when the market is closed, when the scan
\* finds no signal, or when the scan raises.
ScheduledScan ==
  \/ \E reason \in {"market closed", "no signals", "error"} : Skips("scheduled_scan", reason)
  \/ Job("scheduled_scan", Str("alerts_enabled"))

\* The daily report: nothing is sent when the scan raises.
DailyReport ==
  \/ Skips("daily_report", "error")
  \/ Job("daily_report", Str("alerts_enabled"))

NextBot ==
  \/ Start
  \/ HelpCommand
  \/ MarketStatus
  \/ Scan
  \/ QuickScan
  \/ SettingsCmd
  \/ Alerts
  \/ ButtonCallback
  \/ MarketOpenWarning
  \/ MarketOpenNotification
  \/ MarketCloseWarning
  \/ MarketCloseNotification
  \/ ScheduledScan
  \/ DailyReport

SpecBot == InitBot /\ [][NextBot]_vars

(***************************************************************************)
(* Claims about the bot, checked under SpecBot.                            *)
(***************************************************************************)
IsJobCall == "check_setting" \in DOMAIN call

\* The positions of the messages that were delivered.
Delivered == {k \in 1..Len(sent) : sent[k].delivered}

SwitchedOff(chat, setting) ==
  /\ chat \in DOMAIN user_settings
  /\ ~user_settings[chat][setting]

\* C29: a job's message is delivered to no chat whose user has the job's
\* setting switched off, and at most once to each chat.
C29_NoDeliveryWhenOffAndAtMostOnce ==
  IsJobCall =>
    /\ \A k \in Delivered : ~SwitchedOff(ChatOf(sent[k].chat_id), call.check_setting.value)
    /\ \A j, k \in Delivered : ChatOf(sent[j].chat_id) = ChatOf(sent[k].chat_id) => j = k

====
